---- MODULE Spec2Model ----
(***************************************************************************)
(* Document job state machine of the document-processor pipeline:          *)
(* the job store (DocumentJobRepository), the ingest handler and           *)
(* DocumentProcessorService.processDocument / getJobStatus, the Textract   *)
(* completion handler (both variants found in the repository), the         *)
(* classification handler, and the SQS queues that connect them.           *)
(***************************************************************************)
EXTENDS Integers, Sequences, FiniteSets, Bags, TLC

(***************************************************************************)
(* Bounds of the model.                                                    *)
(***************************************************************************)
\* number of distinct messages ever put on the ingest queue
MaxIngest == 2
\* number of those that are sent into the whole pipeline
MaxDocuments == 1
\* number of rows the job table may hold
MaxJobs == 2
\* number of invocations of the completion handler (deliveries of
\* completion notifications, redeliveries included)
MaxCompletions == 2
\* number of classification messages put on the queue by producers other
\* than the completion handler
MaxExternalCls == 1
\* number of getJobStatus calls that consult the extraction service
MaxPolls == 1
\* number of calls made to the job repository on its own
MaxCallers == 3
\* largest maxAttempts given to getCompletionStatus
MaxAttempts == 3
\* number of items of the document metadata table
MaxMetadata == 2
\* number of concurrent callers of retryFailedDocuments
MaxRetriers == 2
\* number of records of an S3 event
MaxRecords == 2
MaxConsumerRecords == 2

(***************************************************************************)
(* Program constants.                                                      *)
(***************************************************************************)
SyncSizeThresholdBytes == 5242880
MaxDocumentSizeBytes == 524288000
MaxReceiveCount == 3
BatchSize == 10

NULL == "null"
\* an absent identifier
NoId == <<>>
SUPPORTED_TEXTRACT_FORMATS == {".pdf", ".png", ".jpg", ".jpeg", ".tiff", ".tif"}

\* DocumentProcessingStatus
SUBMITTED == "SUBMITTED"
IN_PROGRESS == "IN_PROGRESS"
FAILED == "FAILED"
SUCCEEDED == "SUCCEEDED"
PARTIAL_SUCCESS == "PARTIAL_SUCCESS"
EXTRACTED == "EXTRACTED"
DocumentProcessingStatus ==
  {SUBMITTED, IN_PROGRESS, FAILED, SUCCEEDED, PARTIAL_SUCCESS, EXTRACTED}

Bucket == "b"

(***************************************************************************)
(* Inputs: the ingest message bodies the model sends.  A body is either    *)
(* not a valid DocumentMessage, or carries a key (its extension is what    *)
(* matters), metadata.fileSize (0 when absent) and metadata.contentType.   *)
(***************************************************************************)
IngestBodies ==
  { [valid |-> FALSE, ext |-> ".pdf", fileSize |-> 0, contentType |-> NULL],
    [valid |-> TRUE, ext |-> ".txt", fileSize |-> 1, contentType |-> NULL],
    [valid |-> TRUE, ext |-> ".pdf", fileSize |-> SyncSizeThresholdBytes - 1,
     contentType |-> "application/pdf"],
    [valid |-> TRUE, ext |-> ".PNG", fileSize |-> SyncSizeThresholdBytes,
     contentType |-> "image/png"],
    [valid |-> TRUE, ext |-> ".pdf", fileSize |-> 0, contentType |-> NULL],
    [valid |-> TRUE, ext |-> ".pdf", fileSize |-> MaxDocumentSizeBytes + 1,
     contentType |-> NULL] }

IngestIds == 1..MaxIngest

VARIABLES
  jobs,        \* the job table: a sequence of DocumentJob rows
  s3,          \* object storage: the set of <<bucket, key>> present
  ingQ,        \* ingest queue: per message its body, state, receiveCount
  ing,         \* per ingest message, the processRecord invocation on it
  batch,       \* records of the ingest handler invocation in flight
  failedMessageIds,      \* the handler's local list
  successfulMessageIds,  \* the handler's local list
  response,    \* what the last handler invocation returned
  lastBatch,   \* the records of the invocation that returned last
  tx,          \* external extraction jobs: sequence, index = handle
  comp,        \* per completion handler invocation, its position and locals
  clsQ,        \* classification queue: the bag of receivable messages
  clsDLQ,      \* its dead-letter queue
  cls,         \* the classification handler invocation in flight
  externalSent,\* classification messages sent by other producers
  poll,        \* the getJobStatus call in flight
  polls,       \* number of getJobStatus calls that went to the gateway
  variant,     \* which completion handler is deployed
  calls,       \* per caller of the repository on its own, its call
  notification,\* the getCompletionStatus call in flight
  documents,   \* the document metadata table: a sequence of items
  workflow,    \* the processDocumentWorkflow call in flight
  retry,       \* per caller of retryFailedDocuments, its call
  s3Handler,   \* the S3 event handler invocation
  sent,        \* the messages SQSService.sendMessage has put on the queue
  consumer,    \* the sqs-consumer handler invocation
  processing,  \* the processBatch call in flight
  processor    \* the processDocumentWithTextract call and its resources

\* the state of the services that are run on their own
serviceVars ==
  <<notification, documents, workflow, retry, s3Handler, sent, consumer, processing,
    processor>>

vars == <<jobs, s3, ingQ, ing, batch, failedMessageIds, successfulMessageIds,
          response, lastBatch, tx, comp, clsQ, clsDLQ, cls,
          externalSent, poll, polls, variant, calls, serviceVars>>

(***************************************************************************)
(* Identifiers.  jobId, documentId (both randomUUID()) and the external    *)
(* job handle live in separate name spaces.                                *)
(***************************************************************************)
JobId(n) == <<"job", n>>
DocumentId(n) == <<"doc", n>>
TextractJobId(n) == <<"textract", n>>

(***************************************************************************)
(* DocumentJobRepository                                                   *)
(***************************************************************************)
\* the primary key of the table: partition key documentId, sort key timestamp
keyOf(row) == <<row.documentId, row.timestamp>>

\* the row with that primary key, 0 when there is none
rowOfKey(js, key) ==
  IF \E i \in DOMAIN js : keyOf(js[i]) = key
  THEN CHOOSE i \in DOMAIN js : keyOf(js[i]) = key
  ELSE 0

\* fullJob = {...job, createdAt: now, updatedAt: now, timestamp: now}
fullJob(job, now) ==
  [f \in DOMAIN job \cup {"timestamp"} |-> IF f = "timestamp" THEN now ELSE job[f]]

\* ConditionExpression attribute_not_exists(jobId): PutItem evaluates it on
\* the item that has the primary key of the new item, and every item has a
\* jobId, so the write is refused exactly when that key is taken
createJobRefused(js, job, now) == rowOfKey(js, keyOf(fullJob(job, now))) # 0

\* createJob: the table afterwards
createJob(js, job, now) ==
  IF createJobRefused(js, job, now) THEN js ELSE Append(js, fullJob(job, now))

\* a query that matches every row
jobsWithIdAny(js, jobId) == DOMAIN js

\* the rows the JobIdIndex query of getJob matches
jobsWithId(js, jobId) == {i \in DOMAIN js : js[i].jobId = jobId}

\* getJob: index of the row with that jobId, 0 when there is none
getJob(js, jobId) ==
  IF \E i \in DOMAIN js : js[i].jobId = jobId
  THEN CHOOSE i \in DOMAIN js : js[i].jobId = jobId
  ELSE 0

\* the statuses for which updateJobStatus stamps completedAt
StampsCompletedAt(status) == status \in {SUCCEEDED, FAILED, PARTIAL_SUCCESS}

\* updateJobStatus without the assignment of status
updateJobStatusKeepsStatus(js, jobId, status, errorMessage) ==
  LET i == getJob(js, jobId) IN
  IF i = 0 THEN js
  ELSE [js EXCEPT ![i] =
         [@ EXCEPT !.completedAt = IF StampsCompletedAt(status) THEN "set" ELSE @,
                   !.errorMessage = IF errorMessage # NULL THEN errorMessage ELSE @]]

\* an update that writes the whole item back instead of a SET
setJobStatusOverwriting(js, i, status, errorMessage) ==
  [js EXCEPT ![i] = [@ EXCEPT !.status = status, !.textractJobId = NoId]]

\* the UpdateItem of updateJobStatus on row i: SET status (and completedAt,
\* errorMessage); the other attributes are left as they are
setJobStatus(js, i, status, errorMessage) ==
  [js EXCEPT ![i] =
     [@ EXCEPT !.status = status,
               !.completedAt = IF StampsCompletedAt(status) THEN "set" ELSE @,
               !.errorMessage = IF errorMessage # NULL THEN errorMessage ELSE @]]

\* the UpdateItem of updateJob on row i: SET exactly the given attributes
setAttributes(js, i, attributes) ==
  [js EXCEPT ![i] =
     [f \in DOMAIN js[i] |->
        IF f \in DOMAIN attributes THEN attributes[f] ELSE js[i][f]]]

\* updateJobStatus: getJob, then the UpdateItem on the row found
updateJobStatus(js, jobId, status, errorMessage) ==
  LET i == getJob(js, jobId) IN
  IF i = 0 THEN js ELSE setJobStatus(js, i, status, errorMessage)

\* updateJob: getJob, then the UpdateItem on the row found
updateJob(js, jobId, attributes) ==
  LET i == getJob(js, jobId) IN
  IF i = 0 THEN js ELSE setAttributes(js, i, attributes)

\* findJobsByTextractJobId / getJobsByDocumentId: the matching rows (indices)
findJobsByTextractJobId(js, textractJobId) ==
  {i \in DOMAIN js : js[i].textractJobId = textractJobId}

getJobsByDocumentId(js, documentId) ==
  {i \in DOMAIN js : js[i].documentId = documentId}

(***************************************************************************)
(* DocumentProcessorService helpers                                        *)
(***************************************************************************)
\* String.prototype.toLowerCase on the extensions the model uses
toLowerCase(ext) ==
  CASE ext = ".PNG" -> ".png"
    [] ext = ".PDF" -> ".pdf"
    [] ext = ".Jpeg" -> ".jpeg"
    [] ext = ".TXT" -> ".txt"
    [] OTHER -> ext

\* a check that accepts every key that has an extension
isFormatSupportedAnyExtension(ext) == ext # ""

isFormatSupported(ext) == toLowerCase(ext) \in SUPPORTED_TEXTRACT_FORMATS

\* useSync without the comparison to the threshold
useSyncAlways(fileSize) == fileSize > 0

\* useSync = fileSize > 0 && fileSize < syncSizeThresholdBytes
useSync(fileSize) == fileSize > 0 /\ fileSize < SyncSizeThresholdBytes

\* getFeatures: by contentType, else the configured default features
getFeatures(contentType) ==
  IF contentType = "application/pdf" THEN {"TABLES", "FORMS", "SIGNATURES"}
  ELSE IF contentType = "image/png" THEN {"TABLES", "FORMS"}
  ELSE {"TABLES", "FORMS"}

(***************************************************************************)
(* Queue infrastructure: what SQS does with a received message once the    *)
(* handler invocation has returned: "deleted" unless the invocation        *)
(* reported it as failed, else receivable again ("visible") until it has   *)
(* been received maxReceiveCount times, then "dlq".                        *)
(***************************************************************************)
sqsSettle(receiveCount, reportedFailed) ==
  IF ~reportedFailed THEN "deleted"
  ELSE IF receiveCount >= MaxReceiveCount THEN "dlq"
  ELSE "visible"

(***************************************************************************)
(* Initial state: empty table, empty bucket, empty queues, no invocation   *)
(* in flight.                                                              *)
(***************************************************************************)
NoBody == [valid |-> FALSE, ext |-> "", fileSize |-> 0, contentType |-> NULL]

\* error and thrown are the message and the class of the error processRecord
\* threw, caught is the message of the error processDocument's inner catch
\* received, origin the call that raised the error that was thrown
IdleRecord ==
  [pc |-> "idle", job |-> 0, sync |-> FALSE, textractJobId |-> NoId,
   error |-> NULL, thrown |-> NULL, caught |-> NULL, origin |-> NULL]

\* api is the result API getTextractResults called
IdleCompletion ==
  [pc |-> "idle", textractJobId |-> NoId, job |-> 0, error |-> NULL, api |-> NULL]

NoMessage == [documentId |-> NoId, bucket |-> Bucket, key |-> NoId, receiveCount |-> 0]

\* what the model invocation of a classification came back with: invoked
\* is whether invokeModel returned, json whether the text contains a JSON
\* object; of the parsed object, documentType is documentType.type (NULL when
\* documentType or its type is missing) and the flags say whether
\* overallConfidence, documentType.confidence and summary are there and of
\* the type and range the schema asks for
NoOutput ==
  [invoked |-> FALSE, json |-> FALSE, documentType |-> NULL,
   overallConfidence |-> FALSE, confidence |-> FALSE, summary |-> FALSE]

\* what an invocation has done with the knowledge base: observed is the
\* status GetKnowledgeBase answered in getExistingKnowledgeBase (NULL when it
\* was not asked or failed), created whether createKnowledgeBase returned a
\* new id, queried the outcome of queryKnowledgeBase (NULL when not called)
NoKnowledgeBase == [observed |-> NULL, created |-> FALSE, queried |-> NULL]

IdleClassification ==
  [pc |-> "idle", msg |-> NoMessage, error |-> NULL, output |-> NoOutput,
   kb |-> NoKnowledgeBase]

IdlePoll == [pc |-> "idle", job |-> 0]

NoResponse == [returned |-> FALSE, batchItemFailures |-> <<>>]

\* a call to the repository: its operation and arguments, the primary key
\* its getJob read, and what it returned
IdleCall ==
  [pc |-> "idle", op |-> NULL, jobId |-> NoId, key |-> NoId, status |-> NULL,
   errorMessage |-> NULL, textractJobId |-> NoId, result |-> "pending"]

\* a getCompletionStatus call: its maxAttempts, the loop counter, the number
\* of ReceiveMessage calls it has made, whether a message with the expected
\* JobId was in a response, what the last receive answered, and its result
\* a ReceiveMessage call: whether it failed, and the Messages it answered
NoReceive == [failed |-> FALSE, messages |-> <<>>]

\* the null that getCompletionStatus returns for "not found"; threw marks a
\* scan that was left by an exception
NullStatus == [found |-> FALSE, threw |-> FALSE, jobId |-> NULL, status |-> NULL]

\* a getCompletionStatus call; deleted is the JobIds of the messages its
\* DeleteMessage calls have removed from the queue
IdleNotification ==
  [pc |-> "idle", maxAttempts |-> 0, attempt |-> 0, receives |-> 0,
   matchReceived |-> FALSE, last |-> NoReceive, result |-> NullStatus,
   deleted |-> {}]

\* DocumentStatus of the document metadata
METADATA_STORED == "METADATA_STORED"
PROCESSING == "PROCESSING"
PROCESSED == "PROCESSED"
ERROR == "ERROR"

\* a processDocumentWorkflow call: the metadata it read
IdleWorkflow == [pc |-> "idle", metadata |-> <<>>]

\* a retryFailedDocuments call: the documents its scan returned, the position
\* of its loop in them, and retriedIds
IdleRetry ==
  [pc |-> "idle", documents |-> <<>>, k |-> 1, retriedIds |-> <<>>, error |-> NULL]

\* an invocation of the S3 event handler: the configured queue URL, the
\* Records of its event, the position of processS3Event in them, the
\* messageIds of processS3Event, and what the handler returned or threw
IdleS3Handler ==
  [pc |-> "idle", queueUrl |-> "", records |-> <<>>, k |-> 1,
   messageIds |-> <<>>, response |-> [messageIds |-> <<>>], error |-> NULL]

\* an invocation of the sqs-consumer handler: the Records of its event, the
\* messageIds of its validMessages and failedMessageIds, and what it returned
IdleConsumer ==
  [pc |-> "idle", records |-> <<>>, validMessages |-> <<>>,
   failedMessageIds |-> <<>>, batchItemFailures |-> <<>>]

\* a processBatch call: who called it, the documents its scan returned, the
\* position of its loop in them, what processDocumentWorkflow read for the
\* document at that position, and processedIds
IdleProcessing ==
  [pc |-> "idle", caller |-> "none", documents |-> <<>>, k |-> 1,
   metadata |-> <<>>, processedIds |-> <<>>]

\* a processDocumentWithTextract call: the fileType of its document, the
\* SNS topic and SQS queue of its setupNotifications call ("none", "exists"
\* or "deleted"), whether its locals topicArn and queueUrl are set, and the
\* error it is about to throw
IdleProcessor ==
  [pc |-> "idle", fileType |-> "", topic |-> "none", queue |-> "none",
   topicArn |-> FALSE, queueUrl |-> FALSE, error |-> NULL]

\* "plain" stores the raw result only; "autoTrigger" also stores the
\* formatted result and triggers classification, and is deployed with or
\* without a classification queue URL in its environment
Variants == {"plain", "autoTrigger", "autoTriggerUnconfigured"}

Init ==
  /\ jobs = <<>>
  /\ s3 = {}
  /\ ingQ = [m \in IngestIds |->
               [body |-> NoBody, state |-> "unsent", receiveCount |-> 0]]
  /\ ing = [m \in IngestIds |-> IdleRecord]
  /\ batch = {}
  /\ failedMessageIds = <<>>
  /\ successfulMessageIds = <<>>
  /\ response = NoResponse
  /\ lastBatch = {}
  /\ tx = <<>>
  /\ comp = [i \in 1..MaxCompletions |-> IdleCompletion]
  /\ clsQ = EmptyBag
  /\ clsDLQ = EmptyBag
  /\ cls = IdleClassification
  /\ externalSent = 0
  /\ poll = IdlePoll
  /\ polls = 0
  /\ variant \in Variants
  /\ calls = [c \in 1..MaxCallers |-> IdleCall]
  /\ notification = IdleNotification
  /\ documents = <<>>
  /\ workflow = IdleWorkflow
  /\ retry = [c \in 1..MaxRetriers |-> IdleRetry]
  /\ s3Handler = IdleS3Handler
  /\ sent = <<>>
  /\ consumer = IdleConsumer
  /\ processing = IdleProcessing
  /\ processor = IdleProcessor

pipelineVars ==
  <<tx, comp, clsQ, clsDLQ, cls, externalSent, poll, polls, s3, variant, calls, serviceVars>>
handlerVars == <<batch, failedMessageIds, successfulMessageIds, response, lastBatch>>

(***************************************************************************)
(* Ingest queue and the document-processor SQS handler.                    *)
(***************************************************************************)
\* a producer puts a document message on the ingest queue
IngestSend(m, body) ==
  /\ ingQ[m].state = "unsent"
  /\ \A k \in IngestIds : k < m => ingQ[k].state # "unsent"
  /\ ingQ' = [ingQ EXCEPT ![m] = [body |-> body, state |-> "visible", receiveCount |-> 0]]
  /\ UNCHANGED <<jobs, ing, handlerVars, pipelineVars>>

\* the event source invokes handler(event) with the records B
IngestReceive(B) ==
  /\ batch = {}
  /\ B # {}
  /\ Cardinality(B) <= BatchSize
  /\ Len(jobs) + Cardinality(B) <= MaxJobs
  /\ \A m \in B : ingQ[m].state = "visible"
  /\ ingQ' = [m \in IngestIds |->
                IF m \in B
                THEN [ingQ[m] EXCEPT !.state = "inflight", !.receiveCount = @ + 1]
                ELSE ingQ[m]]
  /\ ing' = [m \in IngestIds |->
               IF m \in B THEN [IdleRecord EXCEPT !.pc = "received"] ELSE ing[m]]
  /\ batch' = B
  /\ failedMessageIds' = <<>>
  /\ successfulMessageIds' = <<>>
  /\ response' = NoResponse
  /\ UNCHANGED <<jobs, lastBatch, pipelineVars>>

\* the catch callback without the push
recordFailureDropped(failed, messageId) == failed

\* failedMessageIds.push(record.messageId)
recordFailure(failed, messageId) == Append(failed, messageId)

\* successfulMessageIds.push(record.messageId)
recordSuccess(successful, messageId) == Append(successful, messageId)

\* the record's callback after processRecord resolved
Resolve(m, rec) ==
  /\ ing' = [ing EXCEPT ![m] = [rec EXCEPT !.pc = "returned"]]
  /\ successfulMessageIds' = recordSuccess(successfulMessageIds, m)
  /\ UNCHANGED failedMessageIds

\* the record's callback after processRecord rejected
Reject(m, rec, error, thrown) ==
  /\ ing' = [ing EXCEPT ![m] =
               [rec EXCEPT !.pc = "threw", !.error = error, !.thrown = thrown]]
  /\ failedMessageIds' = recordFailure(failedMessageIds, m)
  /\ UNCHANGED successfulMessageIds

\* the outer catch of processDocument: ValidationError, StorageError and
\* TextractError pass, anything else is wrapped in a TextractError
thrownKind(error) ==
  IF error \in {"ValidationError", "StorageError", "TextractError"}
  THEN error ELSE "TextractError"

\* an inner catch that only logs
catchLogsOnly(js, jobId, message, written) == js

\* the inner catch of processDocument: updateJobStatus(FAILED, error.message),
\* which may itself be rejected by the store (written = FALSE)
catchFailed(js, jobId, message, written) ==
  IF written THEN updateJobStatus(js, jobId, FAILED, message) ELSE js

\* what leaves the inner catch: the caught error, or the store's error
rethrown(error, written) == IF written THEN error ELSE "DatabaseError"

\* the message of what leaves the inner catch
rethrownMessage(message, written) ==
  IF written THEN message ELSE "Failed to update document job status"

\* the call that raised what leaves the inner catch: `throw error` is reached
\* only when the awaited updateJobStatus(FAILED) resolved
rethrownFrom(call, written) == IF written THEN call ELSE "updateJobStatus(FAILED)"

\* the message of the TextractError of analyzeDocumentSync / startDocumentAnalysis
extractionMessage(sync) ==
  IF sync THEN "Failed to analyze document" ELSE "Failed to start document analysis"

\* startDocumentAnalysis sends StartDocumentAnalysisCommand whatever the
\* features are: every external job is an analysis job
startDocumentAnalysis(features) == "analysis"

NewJob(n, m, body) ==
  [jobId |-> JobId(n), documentId |-> DocumentId(n), bucket |-> Bucket,
   key |-> <<"uploads", m>>, status |-> SUBMITTED,
   textractFeatures |-> getFeatures(body.contentType),
   textractJobId |-> NoId, completedAt |-> NULL, errorMessage |-> NULL]

\* where processDocument can be failed by a service it calls
FailurePoints == {"none", "createJob", "updateJobStatus", "extraction"}

\* processRecord up to the return of the extraction call: parse the body,
\* validate, createJob(SUBMITTED), updateJobStatus(IN_PROGRESS), then
\* analyzeDocumentSync or startDocumentAnalysis.  No other invocation can
\* address the new row before this point.
processRecord(m, failure, written) ==
  /\ m \in batch
  /\ ing[m].pc = "received"
  /\ LET body == ingQ[m].body
         n == Len(jobs) + 1
         job == NewJob(n, m, body)
         rec == [ing[m] EXCEPT !.sync = useSync(body.fileSize)]
     IN
       IF ~body.valid
       THEN /\ Reject(m, rec, "Invalid document message format", "ValidationError")
            /\ UNCHANGED <<jobs, tx>>
       ELSE IF ~isFormatSupported(body.ext)
       THEN /\ Reject(m, rec, "Unsupported document format for Textract", "ValidationError")
            /\ UNCHANGED <<jobs, tx>>
       ELSE IF body.fileSize > MaxDocumentSizeBytes
       THEN /\ Reject(m, rec, "Document exceeds maximum size limit", "ValidationError")
            /\ UNCHANGED <<jobs, tx>>
       ELSE   CASE failure = "createJob" ->
                     /\ written
                     /\ Reject(m, [rec EXCEPT !.origin = "createJob"],
                               "Failed to create document job", thrownKind("DatabaseError"))
                     /\ UNCHANGED <<jobs, tx>>
                [] failure = "updateJobStatus" ->
                     /\ jobs' = catchFailed(createJob(jobs, job, n), job.jobId,
                                            "Failed to update document job status", written)
                     /\ Reject(m, [rec EXCEPT !.job = n,
                                      !.caught = "Failed to update document job status",
                                      !.origin = rethrownFrom("updateJobStatus(IN_PROGRESS)",
                                                              written)],
                               rethrownMessage("Failed to update document job status", written),
                               thrownKind(rethrown("DatabaseError", written)))
                     /\ UNCHANGED tx
                [] failure = "extraction" ->
                     /\ jobs' = catchFailed(
                                  updateJobStatus(createJob(jobs, job, n), job.jobId,
                                                  IN_PROGRESS, NULL),
                                  job.jobId, extractionMessage(rec.sync), written)
                     /\ Reject(m, [rec EXCEPT !.job = n,
                                      !.caught = extractionMessage(rec.sync),
                                      !.origin = rethrownFrom("extraction", written)],
                               rethrownMessage(extractionMessage(rec.sync), written),
                               thrownKind(rethrown("TextractError", written)))
                     /\ UNCHANGED tx
                [] OTHER ->
                     /\ written
                     /\ jobs' = updateJobStatus(createJob(jobs, job, n), job.jobId,
                                                IN_PROGRESS, NULL)
                     /\ IF rec.sync
                        THEN /\ ing' = [ing EXCEPT ![m] =
                                          [rec EXCEPT !.pc = "extracted", !.job = n]]
                             /\ UNCHANGED tx
                        ELSE /\ tx' = Append(tx, [state |-> "running", status |-> NULL,
                                                  startedBy |-> n, completions |-> 0,
                                                  api |-> startDocumentAnalysis(
                                                            job.textractFeatures)])
                             /\ ing' = [ing EXCEPT ![m] =
                                          [rec EXCEPT !.pc = "started", !.job = n,
                                             !.textractJobId = TextractJobId(Len(tx) + 1)]]
                     /\ UNCHANGED <<failedMessageIds, successfulMessageIds>>
  /\ UNCHANGED <<ingQ, batch, response, lastBatch, comp, clsQ,
                 clsDLQ, cls, externalSent, poll, polls, s3, variant, calls, serviceVars>>

\* the last write of processDocument and its return: updateJobStatus(SUCCEEDED)
\* on the synchronous path, updateJob({textractJobId}) on the asynchronous
\* one; a rejected write goes through the inner catch
processDocument_Finish(m, ok, written) ==
  /\ m \in batch
  /\ ing[m].pc \in {"extracted", "started"}
  /\ LET jobId == JobId(ing[m].job)
         call == IF ing[m].sync THEN "updateJobStatus(SUCCEEDED)" ELSE "updateJob"
         message == IF ing[m].sync THEN "Failed to update document job status"
                    ELSE "Failed to update document job"
     IN
       IF ok
       THEN /\ written
            /\ jobs' = IF ing[m].sync
                       THEN updateJobStatus(jobs, jobId, SUCCEEDED, NULL)
                       ELSE updateJob(jobs, jobId,
                                      [textractJobId |-> ing[m].textractJobId])
            /\ Resolve(m, ing[m])
       ELSE /\ jobs' = catchFailed(jobs, jobId, message, written)
            /\ Reject(m, [ing[m] EXCEPT !.caught = message,
                                        !.origin = rethrownFrom(call, written)],
                      rethrownMessage(message, written),
                      thrownKind(rethrown("DatabaseError", written)))
  /\ UNCHANGED <<ingQ, batch, response, lastBatch, pipelineVars>>

\* Promise.allSettled(processPromises): every record's callback has settled
allSettled(B, records) == \A m \in B : records[m].pc \in {"returned", "threw"}

\* failedMessageIds.map(itemIdentifier => ({ itemIdentifier }))
batchItemFailures(failed) == [i \in DOMAIN failed |-> [itemIdentifier |-> failed[i]]]

\* the handler returns; SQS deletes the records not reported and makes the
\* reported ones receivable again, or moves them to the dead-letter queue
IngestReturn ==
  /\ batch # {}
  /\ allSettled(batch, ing)
  /\ response' = [returned |-> TRUE,
                  batchItemFailures |-> batchItemFailures(failedMessageIds)]
  /\ ingQ' = [m \in IngestIds |->
                IF m \in batch
                THEN [ingQ[m] EXCEPT !.state =
                        sqsSettle(ingQ[m].receiveCount,
                                  \E i \in DOMAIN response'.batchItemFailures :
                                     response'.batchItemFailures[i].itemIdentifier = m)]
                ELSE ingQ[m]]
  /\ lastBatch' = batch
  /\ batch' = {}
  /\ ing' = [m \in IngestIds |-> IF m \in batch THEN IdleRecord ELSE ing[m]]
  /\ failedMessageIds' = <<>>
  /\ successfulMessageIds' = <<>>
  /\ UNCHANGED <<jobs, pipelineVars>>

NextIngest ==
  \/ \E m \in IngestIds, body \in IngestBodies : IngestSend(m, body)
  \/ \E B \in SUBSET IngestIds : IngestReceive(B)
  \/ \E m \in IngestIds, failure \in FailurePoints, written \in BOOLEAN :
       processRecord(m, failure, written)
  \/ \E m \in IngestIds, ok \in BOOLEAN, written \in BOOLEAN :
       processDocument_Finish(m, ok, written)
  \/ IngestReturn

SpecIngest == Init /\ [][NextIngest]_vars

(***************************************************************************)
(* TextractNotificationService.getCompletionStatus, on its own.  A message *)
(* of the notification queue carries the JobId of its notification (the    *)
(* expected one or another), its Status, whether its body parses and       *)
(* whether its DeleteMessage succeeds.                                     *)
(***************************************************************************)
NotificationMessages ==
  [jobId : {"expected", "other"}, status : {"SUCCEEDED", "FAILED"},
   parses : BOOLEAN, deletes : BOOLEAN]

\* what one ReceiveMessage call answers: a failure, or the Messages of the
\* response
ReceiveOutcomes ==
  {[failed |-> TRUE, messages |-> <<>>]}
  \cup {[failed |-> FALSE, messages |-> ms] :
          ms \in {<<>>} \cup {<<a>> : a \in NotificationMessages}
                \cup {<<a, b>> :
                        a \in {x \in NotificationMessages : x.jobId = "other"},
                        b \in {x \in NotificationMessages : x.status = "SUCCEEDED"}}}

\* a loop condition that lets one more attempt through
attemptsLeftInclusive(attempt, maxAttempts) == attempt <= maxAttempts

\* the loop condition: attempt < maxAttempts
attemptsLeft(attempt, maxAttempts) == attempt < maxAttempts

\* the loop over response.Messages from message k on: the first message that
\* does not parse or cannot be deleted throws ("threw"); a message of the
\* expected job, once deleted, is returned; the others are skipped
RECURSIVE scanMessages(_, _)
scanMessages(messages, k) ==
  IF k > Len(messages) THEN NullStatus
  ELSE IF ~messages[k].parses \/ ~messages[k].deletes
  THEN [NullStatus EXCEPT !.threw = TRUE]
  ELSE IF messages[k].jobId = "expected"
  THEN [found |-> TRUE, threw |-> FALSE,
        jobId |-> messages[k].jobId, status |-> messages[k].status]
  ELSE scanMessages(messages, k + 1)

\* the JobIds of the messages that the loop over response.Messages deletes
\* from message k on: DeleteMessage comes after the parse and before the
\* comparison with expectedJobId
RECURSIVE deletedMessages(_, _)
deletedMessages(messages, k) ==
  IF k > Len(messages) THEN {}
  ELSE IF ~messages[k].parses \/ ~messages[k].deletes THEN {}
  ELSE IF messages[k].jobId = "expected" THEN {messages[k].jobId}
  ELSE {messages[k].jobId} \cup deletedMessages(messages, k + 1)

pipelineState ==
  <<jobs, s3, ingQ, ing, handlerVars, tx, comp, clsQ, clsDLQ, cls, externalSent,
    poll, polls, variant, calls>>

notificationFrame ==
  <<pipelineState, documents, workflow, retry, s3Handler, sent, consumer, processing,
    processor>>

\* getCompletionStatus(queueUrl, expectedJobId, maxWaitTimeSeconds, maxAttempts)
getCompletionStatus_Call(maxAttempts) ==
  /\ notification.pc = "idle"
  /\ notification' = [IdleNotification EXCEPT !.pc = "loop", !.maxAttempts = maxAttempts]
  /\ UNCHANGED notificationFrame

\* one iteration of the loop: a ReceiveMessage call, the scan of its
\* messages, and the catch that logs whatever the iteration threw
getCompletionStatus_Attempt(outcome) ==
  /\ notification.pc = "loop"
  /\ attemptsLeft(notification.attempt, notification.maxAttempts)
  /\ LET found == IF outcome.failed THEN [NullStatus EXCEPT !.threw = TRUE]
                  ELSE scanMessages(outcome.messages, 1)
         received == [notification EXCEPT
                        !.receives = @ + 1,
                        !.last = outcome,
                        !.deleted = @ \cup (IF outcome.failed THEN {}
                                            ELSE deletedMessages(outcome.messages, 1)),
                        !.matchReceived =
                           @ \/ \E k \in DOMAIN outcome.messages :
                                   outcome.messages[k].jobId = "expected"]
     IN  notification' =
           IF ~found.found
           THEN [received EXCEPT !.attempt = @ + 1]
           ELSE [received EXCEPT !.pc = "returned", !.result = found]
  /\ UNCHANGED notificationFrame

\* the loop is over: return null
getCompletionStatus_Exhausted ==
  /\ notification.pc = "loop"
  /\ ~attemptsLeft(notification.attempt, notification.maxAttempts)
  /\ notification' = [notification EXCEPT !.pc = "returned", !.result = NullStatus]
  /\ UNCHANGED notificationFrame

NextNotification ==
  \/ \E maxAttempts \in 0..MaxAttempts : getCompletionStatus_Call(maxAttempts)
  \/ \E outcome \in ReceiveOutcomes : getCompletionStatus_Attempt(outcome)
  \/ getCompletionStatus_Exhausted

\* a call that has started goes on until it returns
SpecNotification ==
  /\ Init /\ [][NextNotification]_vars
  /\ WF_vars((\E outcome \in ReceiveOutcomes : getCompletionStatus_Attempt(outcome))
               \/ getCompletionStatus_Exhausted)

(***************************************************************************)
(* DocumentExtractorService over the document metadata table.  An item is  *)
(* its documentId (its position in the table stands for the key            *)
(* documentId, timestamp), its status and whether it has errorDetails.     *)
(***************************************************************************)
\* DynamoDBService.saveMetadata: PutItem replaces the item with that key
saveMetadata(docs, item) ==
  IF item.documentId \in DOMAIN docs
  THEN [docs EXCEPT ![item.documentId] = item]
  ELSE Append(docs, item)

\* a scan without the filter
getDocumentsOfAnyStatus(docs, status, limit) ==
  SubSeq(docs, 1, IF limit < Len(docs) THEN limit ELSE Len(docs))

\* DynamoDBService.getDocumentsByStatus: one Scan; Limit bounds the items
\* read, the filter is applied to those
getDocumentsByStatus(docs, status, limit) ==
  SelectSeq(SubSeq(docs, 1, IF limit < Len(docs) THEN limit ELSE Len(docs)),
            LAMBDA d : d.status = status)

metadataFrame ==
  <<pipelineState, notification, s3Handler, sent, consumer, processing, processor>>

\* processMessageToMetadata and saveMetadata: a new document
StoreMetadata ==
  /\ Len(documents) < MaxMetadata
  /\ documents' = saveMetadata(documents,
                                [documentId |-> Len(documents) + 1, key |-> 0,
                                 status |-> METADATA_STORED, errorDetails |-> FALSE])
  /\ UNCHANGED <<workflow, retry, metadataFrame>>

\* processDocumentWorkflow: getDocumentMetadata
processDocumentWorkflow_Get(d) ==
  /\ workflow.pc = "idle"
  /\ d \in DOMAIN documents
  /\ workflow' = [pc |-> "got", metadata |-> documents[d]]
  /\ UNCHANGED <<documents, retry, metadataFrame>>

\* processDocumentWorkflow: transitionToProcessing, or transitionToProcessed
\* whose processing succeeds or fails; PROCESSED and ERROR are left alone
processDocumentWorkflow_Transition(ok) ==
  /\ workflow.pc = "got"
  /\ documents' =
       CASE workflow.metadata.status = METADATA_STORED ->
              saveMetadata(documents, [workflow.metadata EXCEPT !.status = PROCESSING])
         [] workflow.metadata.status = PROCESSING ->
              saveMetadata(documents,
                           IF ok THEN [workflow.metadata EXCEPT !.status = PROCESSED]
                           ELSE [workflow.metadata EXCEPT !.status = ERROR,
                                                          !.errorDetails = TRUE])
         [] OTHER -> documents
  /\ workflow' = IdleWorkflow
  /\ UNCHANGED <<retry, metadataFrame>>

\* retryFailedDocuments(batchSize): getDocumentsByStatus(ERROR, batchSize); a
\* scan that fails (a Limit below 1 is refused) ends the call with an Error
retryFailedDocuments_Scan(c, batchSize, ok) ==
  /\ retry[c].pc \in {"idle", "returned", "threw"}
  /\ retry' = [retry EXCEPT ![c] =
                 IF batchSize < 1 \/ ~ok
                 THEN [IdleRetry EXCEPT !.pc = "threw", !.error = "Failed to retry documents"]
                 ELSE [IdleRetry EXCEPT
                         !.pc = "loop",
                         !.documents = getDocumentsByStatus(documents, ERROR, batchSize)]]
  /\ UNCHANGED <<documents, workflow, metadataFrame>>

\* one iteration of the loop: saveMetadata({...document, status:
\* METADATA_STORED}) and the push of its id; a failed save is logged
retryFailedDocuments_Save(c, ok) ==
  /\ retry[c].pc = "loop"
  /\ retry[c].k <= Len(retry[c].documents)
  /\ LET document == retry[c].documents[retry[c].k] IN
       IF ok
       THEN /\ documents' = saveMetadata(documents,
                                          [document EXCEPT !.status = METADATA_STORED])
            /\ retry' = [retry EXCEPT
                           ![c].k = @ + 1,
                           ![c].retriedIds = Append(@, document.documentId)]
       ELSE /\ retry' = [retry EXCEPT ![c].k = @ + 1]
            /\ UNCHANGED documents
  /\ UNCHANGED <<workflow, metadataFrame>>

\* return retriedIds
retryFailedDocuments_Return(c) ==
  /\ retry[c].pc = "loop"
  /\ retry[c].k > Len(retry[c].documents)
  /\ retry' = [retry EXCEPT ![c].pc = "returned"]
  /\ UNCHANGED <<documents, workflow, metadataFrame>>

NextMetadata ==
  \/ StoreMetadata
  \/ \E d \in 1..MaxMetadata : processDocumentWorkflow_Get(d)
  \/ \E ok \in BOOLEAN : processDocumentWorkflow_Transition(ok)
  \/ \E c \in 1..MaxRetriers, batchSize \in 0..MaxMetadata, ok \in BOOLEAN :
       retryFailedDocuments_Scan(c, batchSize, ok)
  \/ \E c \in 1..MaxRetriers, ok \in BOOLEAN : retryFailedDocuments_Save(c, ok)
  \/ \E c \in 1..MaxRetriers : retryFailedDocuments_Return(c)

SpecMetadata == Init /\ [][NextMetadata]_vars

(***************************************************************************)
(* TextractProcessorService.processDocumentWithTextract with the topic and *)
(* queue that TextractNotificationService sets up and cleans up for it.    *)
(***************************************************************************)
\* the requests of setupNotifications, in order
SetupRequests ==
  <<"CreateTopic", "CreateQueue", "GetQueueAttributes", "Subscribe", "SetQueueAttributes">>

\* what exists after setupNotifications whose request number failedAt was
\* rejected (0: none was): the topic after CreateTopic, the queue after
\* CreateQueue
createdBySetup(failedAt) ==
  [topic |-> IF failedAt = 0 \/ failedAt > 1 THEN "exists" ELSE "none",
   queue |-> IF failedAt = 0 \/ failedAt > 2 THEN "exists" ELSE "none"]

\* the file types processDocumentWithTextract accepts
TextractFileTypes == {"pdf", "png", "jpg", "jpeg", "tiff"}

\* the fileType of the metadata: the lowered extension of the key
FileTypes == {"pdf", "png", "tif", "docx"}

\* cleanupResources: DeleteTopic, then DeleteQueue; a rejected DeleteTopic
\* throws before DeleteQueue is sent
cleanupResources(p, topicDeleted, queueDeleted) ==
  IF ~topicDeleted THEN p
  ELSE IF ~queueDeleted THEN [p EXCEPT !.topic = "deleted"]
  ELSE [p EXCEPT !.topic = "deleted", !.queue = "deleted"]

processorFrame ==
  <<pipelineState, notification, documents, workflow, retry, s3Handler, sent,
    consumer, processing>>

\* processDocumentWithTextract(documentMetadata)
processDocumentWithTextract_Call(fileType) ==
  /\ processor.pc = "idle"
  /\ processor' = [IdleProcessor EXCEPT !.pc = "setup", !.fileType = fileType]
  /\ UNCHANGED processorFrame

\* setupNotifications: it returns { topicArn, queueUrl } when no request
\* was rejected and rethrows the error of the one that was
processDocumentWithTextract_Setup(failedAt) ==
  /\ processor.pc = "setup"
  /\ LET created == createdBySetup(failedAt) IN
       processor' =
         IF failedAt = 0
         THEN [processor EXCEPT !.pc = "start", !.topic = created.topic,
                                !.queue = created.queue,
                                !.topicArn = TRUE, !.queueUrl = TRUE]
         ELSE [processor EXCEPT !.pc = "finally", !.topic = created.topic,
                                !.queue = created.queue,
                                !.error = SetupRequests[failedAt]]
  /\ UNCHANGED processorFrame

\* the file type test and startDocumentAnalysis / startDocumentTextDetection
processDocumentWithTextract_Start(ok) ==
  /\ processor.pc = "start"
  /\ processor' =
       IF processor.fileType \notin TextractFileTypes
       THEN [processor EXCEPT !.pc = "finally",
                              !.error = "Unsupported file type for Textract"]
       ELSE IF ~ok
       THEN [processor EXCEPT !.pc = "finally", !.error = "start"]
       ELSE [processor EXCEPT !.pc = "wait"]
  /\ UNCHANGED processorFrame

\* getCompletionStatus came back with completionStatus (NullStatus: null)
processDocumentWithTextract_Wait(completionStatus) ==
  /\ processor.pc = "wait"
  /\ processor' =
       IF ~completionStatus.found \/ completionStatus.status # "SUCCEEDED"
       THEN [processor EXCEPT !.pc = "finally",
                              !.error = "Document processing failed or timed out"]
       ELSE [processor EXCEPT !.pc = "results"]
  /\ UNCHANGED processorFrame

\* getDocumentAnalysis / getDocumentTextDetection and the transformation
processDocumentWithTextract_Results(ok) ==
  /\ processor.pc = "results"
  /\ processor' = [processor EXCEPT !.pc = "finally",
                                    !.error = IF ok THEN NULL ELSE "results"]
  /\ UNCHANGED processorFrame

\* the finally block: cleanupResources when both locals are set, its error
\* logged; then the call returns, or throws what it caught
processDocumentWithTextract_Finally(topicDeleted, queueDeleted) ==
  /\ processor.pc = "finally"
  /\ LET cleaned == IF processor.topicArn /\ processor.queueUrl
                    THEN cleanupResources(processor, topicDeleted, queueDeleted)
                    ELSE processor
     IN  processor' = [cleaned EXCEPT
                         !.pc = IF processor.error = NULL THEN "returned" ELSE "threw"]
  /\ UNCHANGED processorFrame

NextProcessor ==
  \/ \E fileType \in FileTypes : processDocumentWithTextract_Call(fileType)
  \/ \E failedAt \in 0..Len(SetupRequests) : processDocumentWithTextract_Setup(failedAt)
  \/ \E ok \in BOOLEAN : processDocumentWithTextract_Start(ok)
  \/ \E completionStatus \in
         {NullStatus} \cup {[found |-> TRUE, threw |-> FALSE, jobId |-> "expected",
                              status |-> st] : st \in {"SUCCEEDED", "FAILED"}} :
       processDocumentWithTextract_Wait(completionStatus)
  \/ \E ok \in BOOLEAN : processDocumentWithTextract_Results(ok)
  \/ \E topicDeleted \in BOOLEAN, queueDeleted \in BOOLEAN :
       processDocumentWithTextract_Finally(topicDeleted, queueDeleted)

SpecProcessor == Init /\ [][NextProcessor]_vars

(***************************************************************************)
(* The sqs-consumer handler and DocumentExtractorService.processBatch.  A  *)
(* record body is text that parses to an object, parses to null, or does   *)
(* not parse; an object has a bucket or not, and its key is a string, a    *)
(* number other than 0, or absent.  The key of a stored item is the        *)
(* messageId of the record it was made from.                               *)
(***************************************************************************)
ConsumerBodies ==
  {b \in [json : {"object", "null", "invalid"}, bucket : BOOLEAN,
          key : {"string", "number", "absent"}] :
     b.json # "object" => (~b.bucket /\ b.key = "absent")}

\* the events: one record up to MaxConsumerRecords records
ConsumerEvents == UNION {[1..n -> ConsumerBodies] : n \in 1..MaxConsumerRecords}

\* parseSQSRecord: TRUE when it returns a body, FALSE when it returns an
\* error; a body that parses to null throws on parsedBody.bucket inside the try
parseSQSRecord(body) ==
  /\ body.json = "object"
  /\ body.bucket
  /\ body.key # "absent"

\* the records the handler's loop puts in validMessages
validMessagesOf(records) ==
  SelectSeq([i \in DOMAIN records |-> i], LAMBDA i : parseSQSRecord(records[i]))

\* the records the handler's loop puts in failedMessageIds
failedMessagesOf(records) ==
  SelectSeq([i \in DOMAIN records |-> i], LAMBDA i : ~parseSQSRecord(records[i]))

\* extractFileType: key.split('.') throws on a key that is not a string
extractFileTypeThrows(body) == body.key = "number"

\* processMessageToMetadata of the valid messages not in unprocessed, put by
\* BatchWrite after the items of docs
batchSaveMetadata(docs, messages, unprocessed) ==
  LET put == SelectSeq(messages, LAMBDA m : m \notin unprocessed) IN
    docs \o [i \in DOMAIN put |->
               [documentId |-> Len(docs) + i, key |-> put[i],
                status |-> METADATA_STORED, errorDetails |-> FALSE]]

\* the handler's catch: failedMessageIds.push(...event.Records.map(messageId))
pushAll(failed, records) == failed \o [i \in DOMAIN records |-> i]

consumerFrame ==
  <<pipelineState, notification, workflow, retry, s3Handler, sent, processor>>

\* handler(event) up to processBatchMessages: parse, split the records
Consumer_Invoke(event) ==
  /\ consumer.pc = "idle"
  /\ processing.pc \in {"idle", "returned", "threw"}
  /\ consumer' = [IdleConsumer EXCEPT
                    !.pc = IF Len(validMessagesOf(event)) > 0 THEN "store" ELSE "return",
                    !.records = event,
                    !.validMessages = validMessagesOf(event),
                    !.failedMessageIds = failedMessagesOf(event)]
  /\ UNCHANGED <<documents, processing, consumerFrame>>

\* processBatchMessages: a message whose key is not a string throws before
\* anything is written; BatchWrite is rejected (ok = FALSE), or puts the
\* items except those it returns in UnprocessedItems, which are not read
Consumer_Store(ok, unprocessed) ==
  /\ consumer.pc = "store"
  /\ unprocessed \subseteq {consumer.validMessages[i] : i \in DOMAIN consumer.validMessages}
  /\ IF \/ \E i \in DOMAIN consumer.validMessages :
               extractFileTypeThrows(consumer.records[consumer.validMessages[i]])
        \/ ~ok
     THEN /\ unprocessed = {}
          /\ consumer' = [consumer EXCEPT
                            !.pc = "return",
                            !.failedMessageIds = pushAll(@, consumer.records)]
          /\ UNCHANGED documents
     ELSE /\ documents' = batchSaveMetadata(documents, consumer.validMessages, unprocessed)
          /\ consumer' = [consumer EXCEPT !.pc = "initiate"]
  /\ UNCHANGED <<processing, consumerFrame>>

\* processBatch(batchSize): getDocumentsByStatus(METADATA_STORED, batchSize),
\* called by initiateDocumentProcessing with messages.length or by the
\* scheduled handler; a scan that fails ends the call with an Error, which
\* initiateDocumentProcessing logs
processBatch_Scan(caller, batchSize, ok) ==
  /\ processing.pc \in {"idle", "returned", "threw"}
  /\ IF caller = "consumer"
     THEN consumer.pc = "initiate" /\ batchSize = Len(consumer.validMessages)
     ELSE consumer.pc \in {"idle", "returned"}
  /\ IF batchSize < 1 \/ ~ok
     THEN /\ processing' = [IdleProcessing EXCEPT !.pc = "threw", !.caller = caller]
          /\ consumer' = IF caller = "consumer"
                         THEN [consumer EXCEPT !.pc = "return"] ELSE consumer
     ELSE /\ processing' =
               [IdleProcessing EXCEPT
                  !.pc = "loop", !.caller = caller,
                  !.documents = getDocumentsByStatus(documents, METADATA_STORED, batchSize)]
          /\ UNCHANGED consumer
  /\ UNCHANGED <<documents, consumerFrame>>

\* one iteration, first half: processDocumentWorkflow reads the item; a read
\* that fails throws, which the loop logs
processBatch_Get(ok) ==
  /\ processing.pc = "loop"
  /\ processing.k <= Len(processing.documents)
  /\ processing' =
       IF ok
       THEN [processing EXCEPT
               !.pc = "got",
               !.metadata = documents[processing.documents[processing.k].documentId]]
       ELSE [processing EXCEPT !.k = @ + 1]
  /\ UNCHANGED <<documents, consumer, consumerFrame>>

\* what processDocumentWorkflow saves for the item it read: PROCESSING for
\* METADATA_STORED; for PROCESSING, PROCESSED or, when the processing
\* failed, ERROR; nothing for PROCESSED and ERROR
workflowStep(metadata, processed) ==
  CASE metadata.status = METADATA_STORED -> [metadata EXCEPT !.status = PROCESSING]
    [] metadata.status = PROCESSING ->
         IF processed THEN [metadata EXCEPT !.status = PROCESSED]
         ELSE [metadata EXCEPT !.status = ERROR, !.errorDetails = TRUE]
    [] OTHER -> metadata

\* one iteration, second half: the switch of processDocumentWorkflow and
\* its save; a save that fails (saved = FALSE) throws, which the loop logs
\* (a failed save of PROCESSED followed by a successful save of ERROR is
\* the outcome of processed = FALSE)
processBatch_Transition(processed, saved) ==
  /\ processing.pc = "got"
  /\ LET item == workflowStep(processing.metadata, processed) IN
       IF item = processing.metadata
       THEN /\ saved
            /\ UNCHANGED documents
            /\ processing' = [processing EXCEPT
                                !.pc = "loop", !.k = @ + 1,
                                !.processedIds = Append(@, item.documentId)]
       ELSE IF saved
       THEN /\ documents' = saveMetadata(documents, item)
            /\ processing' = [processing EXCEPT
                                !.pc = "loop", !.k = @ + 1,
                                !.processedIds = Append(@, item.documentId)]
       ELSE /\ UNCHANGED documents
            /\ processing' = [processing EXCEPT !.pc = "loop", !.k = @ + 1]
  /\ UNCHANGED <<consumer, consumerFrame>>

\* return processedIds; initiateDocumentProcessing returns to the handler
processBatch_Return ==
  /\ processing.pc = "loop"
  /\ processing.k > Len(processing.documents)
  /\ processing' = [processing EXCEPT !.pc = "returned"]
  /\ consumer' = IF processing.caller = "consumer"
                 THEN [consumer EXCEPT !.pc = "return"] ELSE consumer
  /\ UNCHANGED <<documents, consumerFrame>>

\* the handler returns batchItemFailures
Consumer_Return ==
  /\ consumer.pc = "return"
  /\ consumer' = [consumer EXCEPT
                    !.pc = "returned",
                    !.batchItemFailures = batchItemFailures(consumer.failedMessageIds)]
  /\ UNCHANGED <<documents, processing, consumerFrame>>

NextConsumer ==
  \/ \E event \in ConsumerEvents : Consumer_Invoke(event)
  \/ \E ok \in BOOLEAN, unprocessed \in SUBSET (1..MaxConsumerRecords) :
       Consumer_Store(ok, unprocessed)
  \/ \E caller \in {"consumer", "scheduled"}, batchSize \in 0..MaxConsumerRecords,
        ok \in BOOLEAN : processBatch_Scan(caller, batchSize, ok)
  \/ \E ok \in BOOLEAN : processBatch_Get(ok)
  \/ \E processed \in BOOLEAN, saved \in BOOLEAN : processBatch_Transition(processed, saved)
  \/ processBatch_Return
  \/ Consumer_Return

SpecConsumer == Init /\ [][NextConsumer]_vars

(***************************************************************************)
(* The scheduled processBatch handler on a table whose reads and writes    *)
(* succeed, with a batch size that covers the table.  The schedule keeps   *)
(* firing and a call that has started goes on; direct calls of            *)
(* processDocumentWorkflow happen or not.                                  *)
(***************************************************************************)
ScheduledBatch ==
  \/ processBatch_Scan("scheduled", MaxMetadata, TRUE)
  \/ processBatch_Get(TRUE)
  \/ \E processed \in BOOLEAN : processBatch_Transition(processed, TRUE)
  \/ processBatch_Return

NextBatch ==
  \/ StoreMetadata
  \/ ScheduledBatch
  \/ \E d \in 1..MaxMetadata : processDocumentWorkflow_Get(d)
  \/ \E ok \in BOOLEAN : processDocumentWorkflow_Transition(ok)

SpecBatch == Init /\ [][NextBatch]_vars /\ WF_vars(ScheduledBatch)

(***************************************************************************)
(* The S3 event handler and IngestionService.processS3Event.  The key of   *)
(* an S3 record is a sequence of the pieces "a" (a plain character), "+",  *)
(* the escapes "%2B" and "%20", and "%ZZ", which is not an escape.         *)
(***************************************************************************)
KeyPieces == {"a", "+", "%2B", "%20", "%ZZ"}

RecordKeys ==
  {<<x>> : x \in KeyPieces}
  \cup {<<"a", "+">>, <<"%2B", "a">>, <<"+", "%2B">>, <<"a", "%ZZ">>}

\* object.size of a record: a number, or absent
RecordSizes == {1024, 0, -1}

S3Records == [bucket : {Bucket}, key : RecordKeys, size : RecordSizes]

\* the events: no record, or any record followed by records with a size and
\* a key of one piece
S3Events ==
  {<<>>}
  \cup {<<r>> \o rest :
          r \in S3Records,
          rest \in UNION {[1..n -> {x \in S3Records : x.size = 1024 /\ Len(x.key) = 1}] :
                           n \in 0..(MaxRecords - 1)}}

\* key.replace(/\+/g, ' ')
plusToSpace(key) == [i \in DOMAIN key |-> IF key[i] = "+" THEN " " ELSE key[i]]

\* decodeURIComponent throws URIError on a % that starts no escape
uriMalformed(key) == \E i \in DOMAIN key : key[i] = "%ZZ"

\* decodeURIComponent on a well-formed key
decodeURIComponent(key) ==
  [i \in DOMAIN key |->
     CASE key[i] = "%2B" -> "+"
       [] key[i] = "%20" -> " "
       [] OTHER -> key[i]]

\* record.s3.object.size?.toString() || '0'; -1 stands for an absent size
fileSizeOf(size) ==
  CASE size = 1024 -> "1024"
    [] OTHER -> "0"

\* the IngestionMessage of a record
IngestionMessageOf(record) ==
  [bucketName |-> record.bucket,
   objectKey |-> decodeURIComponent(plusToSpace(record.key)),
   fileSize |-> fileSizeOf(record.size)]

\* a queue that drops what it is sent
sendMessageDropped(queue, message) == queue

\* SQSService.sendMessage: SendMessage, the queue gives the message an id
sendMessage(queue, message) ==
  Append(queue, [messageId |-> Len(queue) + 1, body |-> message])

\* a check that takes the queue URL for defined
queueUrlAssumed(queueUrl) == TRUE

\* environment.aws.sqs.queueUrl is truthy
queueUrlDefined(queueUrl) == queueUrl # ""

uploadFrame ==
  <<pipelineState, notification, documents, workflow, retry, consumer, processing,
    processor>>

\* handler(event): the check of the queue URL, then processS3Event up to its
\* loop; an event without records returns [] at once
S3Handler_Invoke(event, queueUrl) ==
  /\ s3Handler.pc = "idle"
  /\ LET h == [IdleS3Handler EXCEPT !.queueUrl = queueUrl, !.records = event] IN
       s3Handler' =
         IF ~queueUrlDefined(queueUrl)
         THEN [h EXCEPT !.pc = "threw",
                        !.error = "SQS_QUEUE_URL environment variable is not defined"]
         ELSE IF Len(event) = 0
         THEN [h EXCEPT !.pc = "returned"]
         ELSE [h EXCEPT !.pc = "loop"]
  /\ UNCHANGED <<sent, uploadFrame>>

\* one iteration of the loop of processS3Event: build the message, send it,
\* push its id; whatever is thrown is logged and thrown again, and the
\* handler's catch throws it again
processS3Event_Record(ok) ==
  /\ s3Handler.pc = "loop"
  /\ s3Handler.k <= Len(s3Handler.records)
  /\ LET record == s3Handler.records[s3Handler.k] IN
       IF uriMalformed(plusToSpace(record.key))
       THEN /\ s3Handler' = [s3Handler EXCEPT !.pc = "threw", !.error = "URI malformed"]
            /\ UNCHANGED sent
       ELSE IF ~ok
       THEN /\ s3Handler' = [s3Handler EXCEPT !.pc = "threw",
                                              !.error = "Error sending message to SQS"]
            /\ UNCHANGED sent
       ELSE /\ sent' = sendMessage(sent, IngestionMessageOf(record))
            /\ s3Handler' = [s3Handler EXCEPT
                               !.k = @ + 1,
                               !.messageIds = Append(@, Len(sent) + 1)]
  /\ UNCHANGED uploadFrame

\* processS3Event returns messageIds and the handler returns { messageIds }
S3Handler_Return ==
  /\ s3Handler.pc = "loop"
  /\ s3Handler.k > Len(s3Handler.records)
  /\ s3Handler' = [s3Handler EXCEPT
                     !.pc = "returned",
                     !.response = [messageIds |-> s3Handler.messageIds]]
  /\ UNCHANGED <<sent, uploadFrame>>

NextUpload ==
  \/ \E event \in S3Events, queueUrl \in {"", "https://sqs/ingestion"} :
       S3Handler_Invoke(event, queueUrl)
  \/ \E ok \in BOOLEAN : processS3Event_Record(ok)
  \/ S3Handler_Return

SpecUpload == Init /\ [][NextUpload]_vars

(***************************************************************************)
(* Validation: the ingest handler on messages that are malformed, too      *)
(* large, or whose key has one of these extensions ("" is a key without    *)
(* extension), with no failure of the services behind it.                  *)
(***************************************************************************)
Extensions ==
  {".pdf", ".PDF", ".PNG", ".Jpeg", ".tif", ".txt", ".TXT", ".docx", ".pdfx", ""}

ValidationBodies ==
  {b \in IngestBodies : ~b.valid \/ b.fileSize > MaxDocumentSizeBytes}
  \cup {[valid |-> TRUE, ext |-> e, fileSize |-> 1, contentType |-> NULL] :
          e \in Extensions}

NextValidation ==
  \/ \E m \in IngestIds, body \in ValidationBodies : IngestSend(m, body)
  \/ \E B \in SUBSET IngestIds : IngestReceive(B)
  \/ \E m \in IngestIds : processRecord(m, "none", TRUE)
  \/ \E m \in IngestIds : processDocument_Finish(m, TRUE, TRUE)
  \/ IngestReturn

SpecValidation == Init /\ [][NextValidation]_vars

(***************************************************************************)
(* The extraction service: an asynchronous job finishes, and from then on  *)
(* its completion notification can be delivered, any number of times.      *)
(***************************************************************************)
TextractFinish(x, status) ==
  /\ x \in DOMAIN tx
  /\ tx[x].state = "running"
  /\ tx' = [tx EXCEPT ![x] = [@ EXCEPT !.state = "finished", !.status = status]]
  /\ UNCHANGED <<jobs, s3, ingQ, ing, handlerVars, comp, clsQ,
                 clsDLQ, cls, externalSent, poll, polls, variant, calls, serviceVars>>

(***************************************************************************)
(* Completion handler.                                                     *)
(***************************************************************************)
\* a result key derived from the jobId instead
resultKeyByJobId(job) == <<"extracted", job.jobId>>

\* `extracted/${job.documentId}.json`
resultKey(job) == <<"extracted", job.documentId>>

\* `formatted/${job.documentId}.json`
formattedResultsKey(job) == <<"formatted", job.documentId>>

\* a store that resolves without writing the object
storeResultsNowhere(store, bucket, key) == store

\* PutObject: the object is there afterwards, whether or not it was before
storeResultsInS3(store, bucket, key) == store \cup {<<bucket, key>>}

completionFrame ==
  <<ingQ, ing, handlerVars, cls, clsDLQ, externalSent, poll, polls, variant, calls, serviceVars>>

\* a notification for finished job x is delivered to a new invocation i
CompletionReceive(i, x) ==
  /\ comp[i].pc = "idle"
  /\ \A k \in 1..MaxCompletions : k < i => comp[k].pc # "idle"
  /\ x \in DOMAIN tx
  /\ tx[x].state = "finished"
  /\ comp' = [comp EXCEPT ![i] =
                [IdleCompletion EXCEPT !.pc = "find", !.textractJobId = TextractJobId(x)]]
  /\ UNCHANGED <<jobs, s3, tx, clsQ, completionFrame>>

Throw(i, error) ==
  comp' = [comp EXCEPT ![i] = [@ EXCEPT !.pc = "threw", !.error = error]]

\* a handler that always takes the job to have no features
hasFeaturesNever(job) == FALSE

\* job.textractFeatures && job.textractFeatures.length > 0
hasFeatures(job) == job.textractFeatures # {}

\* getTextractResults: GetDocumentAnalysisCommand for a job with features,
\* GetDocumentTextDetectionCommand for one without
getTextractResults(withFeatures) == IF withFeatures THEN "analysis" ELSE "detection"

\* findJobsByTextractJobId, jobs[0], then getTextractResults
processTextractCompletion_Find(i) ==
  /\ comp[i].pc = "find"
  /\ LET found == findJobsByTextractJobId(jobs, comp[i].textractJobId) IN
       IF found = {}
       THEN Throw(i, "Job not found in database")
       ELSE LET j == CHOOSE j \in found : \A k \in found : j <= k
                api == getTextractResults(hasFeatures(jobs[j]))
            IN \E ok \in BOOLEAN :
                 IF ok
                 THEN comp' = [comp EXCEPT ![i].pc = "storeRaw", ![i].job = j,
                                           ![i].api = api]
                 ELSE comp' = [comp EXCEPT ![i].pc = "threw", ![i].job = j,
                                           ![i].api = api,
                                           ![i].error = "Failed to get Textract results"]
  /\ UNCHANGED <<jobs, s3, tx, clsQ, completionFrame>>

\* storeResultsInS3(job.bucket, `extracted/${job.documentId}.json`, ...)
processTextractCompletion_StoreRaw(i) ==
  /\ comp[i].pc = "storeRaw"
  /\ \E ok \in BOOLEAN :
       IF ok
       THEN /\ s3' = storeResultsInS3(s3, jobs[comp[i].job].bucket, resultKey(jobs[comp[i].job]))
            /\ comp' = [comp EXCEPT ![i].pc = IF variant = "plain" THEN "update"
                                           ELSE "storeFormatted"]
       ELSE /\ Throw(i, "Failed to store results")
            /\ UNCHANGED s3
  /\ UNCHANGED <<jobs, tx, clsQ, completionFrame>>

\* formatTextractResults, then storeResultsInS3(.., `formatted/..`, ..)
processTextractCompletion_StoreFormatted(i) ==
  /\ comp[i].pc = "storeFormatted"
  /\ \E ok \in BOOLEAN :
       IF ok
       THEN /\ s3' = storeResultsInS3(s3, jobs[comp[i].job].bucket,
                                      formattedResultsKey(jobs[comp[i].job]))
            /\ comp' = [comp EXCEPT ![i].pc = "trigger"]
       ELSE /\ Throw(i, "Failed to store results")
            /\ UNCHANGED s3
  /\ UNCHANGED <<jobs, tx, clsQ, completionFrame>>

\* the message triggerDocumentClassification sends
classificationMessage(documentId, bucket, key) ==
  [documentId |-> documentId, bucket |-> bucket, key |-> key, receiveCount |-> 0]

\* triggerDocumentClassification(job.documentId, job.bucket, formattedResultsKey);
\* without a queue URL it logs a warning and sends nothing
processTextractCompletion_Trigger(i) ==
  /\ comp[i].pc = "trigger"
  /\ \E ok \in BOOLEAN :
       IF variant = "autoTriggerUnconfigured"
       THEN /\ ok
            /\ comp' = [comp EXCEPT ![i].pc = "update"]
            /\ UNCHANGED clsQ
       ELSE IF ok
       THEN /\ clsQ' = clsQ (+) SetToBag({classificationMessage(
                         jobs[comp[i].job].documentId, jobs[comp[i].job].bucket,
                         formattedResultsKey(jobs[comp[i].job]))})
            /\ comp' = [comp EXCEPT ![i].pc = "update"]
       ELSE /\ Throw(i, "Failed to trigger document classification")
            /\ UNCHANGED clsQ
  /\ UNCHANGED <<jobs, s3, tx, completionFrame>>

\* jobRepository.updateJobStatus(job.jobId, EXTRACTED)
processTextractCompletion_Update(i) ==
  /\ comp[i].pc = "update"
  /\ \E ok \in BOOLEAN :
       IF ok
       THEN /\ jobs' = updateJobStatus(jobs, jobs[comp[i].job].jobId, EXTRACTED, NULL)
            /\ comp' = [comp EXCEPT ![i].pc = "done"]
            /\ tx' = [tx EXCEPT ![comp[i].textractJobId[2]] =
                        [@ EXCEPT !.completions = @ + 1]]
       ELSE /\ Throw(i, "Failed to update job status")
            /\ UNCHANGED <<jobs, tx>>
  /\ UNCHANGED <<s3, clsQ, completionFrame>>

\* a handler whose loop lets the record's error through
invocationFailedOnThrow(pc) == pc = "threw"

\* handler: the loop catches and logs the record's error and goes on, so no
\* invocation ends with an error
invocationFailed(pc) == FALSE

\* the handler returns; an invocation that ended with an error would be
\* retried by the event source with the same notification
CompletionReturn(i) ==
  /\ comp[i].pc \in {"done", "threw"}
  /\ comp' = [comp EXCEPT ![i] =
                IF invocationFailed(comp[i].pc)
                THEN [IdleCompletion EXCEPT !.pc = "find",
                                            !.textractJobId = comp[i].textractJobId]
                ELSE [IdleCompletion EXCEPT !.pc = "retired"]]
  /\ UNCHANGED <<jobs, s3, tx, clsQ, completionFrame>>

(***************************************************************************)
(* Classification queue and handler.                                       *)
(***************************************************************************)
\* `classified/${documentId}.json`
classifiedKey(documentId) == <<"classified", documentId>>

classificationFrame == <<ingQ, ing, handlerVars, tx, comp, poll, polls, variant, calls, serviceVars>>

\* a producer other than the completion handler sends {documentId, bucket,
\* key} for a document whose extraction result it has seen in the bucket
ExternalClassificationSend(j, key) ==
  /\ externalSent < MaxExternalCls
  /\ j \in DOMAIN jobs
  /\ <<jobs[j].bucket, resultKey(jobs[j])>> \in s3
  /\ key \in {resultKey(jobs[j]), formattedResultsKey(jobs[j])}
  /\ clsQ' = clsQ (+) SetToBag({classificationMessage(jobs[j].documentId,
                                                      jobs[j].bucket, key)})
  /\ externalSent' = externalSent + 1
  /\ UNCHANGED <<jobs, s3, cls, clsDLQ, classificationFrame>>

\* the event source (batchSize 1) invokes handler(event) with one record
ClassificationReceive(msg) ==
  /\ cls.pc = "idle"
  /\ BagIn(msg, clsQ)
  /\ clsQ' = clsQ (-) SetToBag({msg})
  /\ cls' = [IdleClassification EXCEPT
               !.pc = "validate", !.msg = [msg EXCEPT !.receiveCount = @ + 1]]
  /\ UNCHANGED <<jobs, s3, clsDLQ, externalSent, classificationFrame>>

\* validateDocument: GetObject(bucket, key) succeeds iff the object is there
validateDocument(store, bucket, key) == <<bucket, key>> \in store

\* the enum of documentType.type in getBankingClassificationSchema
BankingDocumentTypes ==
  {"KYC_FORM", "CREDIT_APPLICATION", "LOAN_CONTRACT", "BANK_STATEMENT",
   "TRANSACTION_RECEIPT", "ID_CARD", "PASSPORT", "UTILITY_BILL", "SALARY_SLIP",
   "OTHER"}

ValidOutput ==
  [invoked |-> TRUE, json |-> TRUE, documentType |-> "BANK_STATEMENT",
   overallConfidence |-> TRUE, confidence |-> TRUE, summary |-> TRUE]

\* the model outputs the classification handler is given
LlmOutputs ==
  { ValidOutput,
    [ValidOutput EXCEPT !.documentType = "OTHER"],
    [ValidOutput EXCEPT !.documentType = "INVOICE"],
    [ValidOutput EXCEPT !.documentType = "bank_statement"],
    [ValidOutput EXCEPT !.documentType = NULL],
    [ValidOutput EXCEPT !.overallConfidence = FALSE],
    [ValidOutput EXCEPT !.confidence = FALSE],
    [ValidOutput EXCEPT !.summary = FALSE],
    [NoOutput EXCEPT !.invoked = TRUE],
    NoOutput }

\* parseJsonFromLlmResponse: throws unless the text holds a JSON object
parseJsonFromLlmResponse(output) == output.json

\* a validator that accepts every object
validateAnything(data) == TRUE

\* validate(data, getBankingClassificationSchema()): the required properties
\* are there and well typed and documentType.type is in the enum (a value
\* coerced to a string is still compared with the enum)
validate(data) ==
  /\ data.overallConfidence
  /\ data.summary
  /\ data.documentType # NULL
  /\ data.confidence
  /\ data.documentType \in BankingDocumentTypes

\* how the knowledge base service answers one invocation: existing is the
\* answer of GetKnowledgeBase for the configured id (a status, "error" when
\* the call fails, "none" when no valid id is configured), create whether
\* CreateKnowledgeBase and the storing of its id succeed, query whether
\* RetrieveAndGenerate succeeds
KnowledgeBaseRuns ==
  [existing : {"ACTIVE", "CREATING", "error", "none"},
   create : BOOLEAN, query : BOOLEAN]

\* getExistingKnowledgeBase: the configured id when its status is ACTIVE,
\* null otherwise (a failure of the call is logged and answers null)
getExistingKnowledgeBase(run) == run.existing = "ACTIVE"

\* createKnowledgeBase: the new id, or null when any step of it fails
createKnowledgeBase(run) == run.create

\* classifyDocumentDirectly, and classifyDocumentWithKnowledgeBase after its
\* query: invokeModel, parseJsonFromLlmResponse, validate
classifyDocument(c, output) ==
  IF ~output.invoked
  THEN [c EXCEPT !.pc = "threw", !.output = output,
                 !.error = "Classification failed"]
  ELSE IF ~parseJsonFromLlmResponse(output)
  THEN [c EXCEPT !.pc = "threw", !.output = output,
                 !.error = "Failed to parse JSON from LLM response"]
  ELSE IF ~validate(output)
  THEN [c EXCEPT !.pc = "threw", !.output = output,
                 !.error = "Schema validation failed"]
  ELSE [c EXCEPT !.pc = "store", !.output = output]

\* classifyDocumentWithKnowledgeBase: the error of queryKnowledgeBase is
\* logged and thrown again
classifyDocumentWithKnowledgeBase(c, run, output) ==
  IF ~run.query
  THEN [c EXCEPT !.pc = "threw", !.kb.queried = "failed",
                 !.error = "Error querying knowledge base"]
  ELSE classifyDocument([c EXCEPT !.kb.queried = "ok"], output)

\* processClassificationRecord up to the classification result:
\* validateDocument, getExistingKnowledgeBase, createKnowledgeBase when
\* there is no active one, then classifyDocumentWithKnowledgeBase with the
\* id either of them returned, classifyDocumentDirectly with none
processClassificationRecord_Classify(run, output) ==
  /\ cls.pc = "validate"
  /\ IF ~validateDocument(s3, cls.msg.bucket, cls.msg.key)
     THEN cls' = [cls EXCEPT !.pc = "threw", !.error = "Document not found"]
     ELSE LET checked == [cls EXCEPT !.kb.observed =
                            IF run.existing \in {"error", "none"}
                            THEN NULL ELSE run.existing]
          IN  cls' =
                IF getExistingKnowledgeBase(run)
                THEN classifyDocumentWithKnowledgeBase(checked, run, output)
                ELSE IF createKnowledgeBase(run)
                THEN classifyDocumentWithKnowledgeBase(
                       [checked EXCEPT !.kb.created = TRUE], run, output)
                ELSE classifyDocument(checked, output)
  /\ UNCHANGED <<jobs, s3, clsQ, clsDLQ, externalSent, classificationFrame>>

\* storeClassificationResults without the PutObject
putClassifiedNothing(store, bucket, documentId) == store

\* PutObject(bucket, `classified/${documentId}.json`)
putClassified(store, bucket, documentId) ==
  store \cup {<<bucket, classifiedKey(documentId)>>}

\* storeClassificationResults: storeEntry, then PutObject of the result
storeClassificationResults_Put ==
  /\ cls.pc = "store"
  /\ \E ok \in BOOLEAN :
       IF ok
       THEN /\ s3' = putClassified(s3, cls.msg.bucket, cls.msg.documentId)
            /\ cls' = [cls EXCEPT !.pc = "updateJob"]
       ELSE /\ cls' = [cls EXCEPT !.pc = "threw", !.error = "Failed to store classification"]
            /\ UNCHANGED s3
  /\ UNCHANGED <<jobs, clsQ, clsDLQ, externalSent, classificationFrame>>

\* storeClassificationResults: getJobsByDocumentId, then
\* updateJob(jobs[0].jobId, {status: SUCCEEDED, completedAt}); an error of
\* either is caught and logged
storeClassificationResults_UpdateJob ==
  /\ cls.pc = "updateJob"
  /\ LET found == getJobsByDocumentId(jobs, cls.msg.documentId) IN
     \E ok \in BOOLEAN :
       jobs' = IF ok /\ found # {}
               THEN updateJob(jobs,
                              jobs[CHOOSE j \in found : \A k \in found : j <= k].jobId,
                              [status |-> SUCCEEDED, completedAt |-> "set"])
               ELSE jobs
  /\ cls' = [cls EXCEPT !.pc = "returned"]
  /\ UNCHANGED <<s3, clsQ, clsDLQ, externalSent, classificationFrame>>

\* handler catches and logs the record's error and returns void: it has no
\* way to report a record as failed
handlerReportsFailure(pc) == FALSE

\* the handler returns and SQS settles the record
ClassificationReturn ==
  /\ cls.pc \in {"returned", "threw"}
  /\ LET disposition == sqsSettle(cls.msg.receiveCount, handlerReportsFailure(cls.pc)) IN
       /\ clsQ' = IF disposition = "visible" THEN clsQ (+) SetToBag({cls.msg}) ELSE clsQ
       /\ clsDLQ' = IF disposition = "dlq" THEN clsDLQ (+) SetToBag({cls.msg}) ELSE clsDLQ
  /\ cls' = IdleClassification
  /\ UNCHANGED <<jobs, s3, externalSent, classificationFrame>>

(***************************************************************************)
(* DocumentProcessorService.getJobStatus                                   *)
(***************************************************************************)
\* the rows whose jobId processDocument has handed out or logged
ReturnedJobs ==
  {j \in DOMAIN jobs :
     \A m \in IngestIds : ing[m].job = j => ing[m].pc \notin {"extracted", "started"}}

pollFrame ==
  <<s3, ingQ, ing, handlerVars, tx, comp, clsQ, clsDLQ, cls, externalSent, variant, calls, serviceVars>>

\* getJob(jobId); a row that is not IN_PROGRESS is returned as read, and
\* only the calls that go on to the gateway are counted
getJobStatus_Read(j) ==
  /\ polls < MaxPolls
  /\ poll.pc = "idle"
  /\ j \in ReturnedJobs
  /\ IF jobs[getJob(jobs, JobId(j))].status = IN_PROGRESS
     THEN /\ poll' = [pc |-> "gateway", job |-> j]
          /\ polls' = polls + 1
     ELSE UNCHANGED <<poll, polls>>
  /\ UNCHANGED <<jobs, pollFrame>>

\* what getDocumentAnalysisResults(jobId) can come back with
GatewayStatuses == {"SUCCEEDED", "FAILED", "PARTIAL_SUCCESS", "IN_PROGRESS", "error"}

\* the switch on textractStatus.jobStatus and updateJobStatus(jobId, newStatus)
getJobStatus_Update(gatewayStatus) ==
  /\ poll.pc = "gateway"
  /\ jobs' = IF gatewayStatus \in {"SUCCEEDED", "FAILED", "PARTIAL_SUCCESS"}
             THEN updateJobStatus(jobs, JobId(poll.job), gatewayStatus, NULL)
             ELSE jobs
  /\ poll' = IdlePoll
  /\ UNCHANGED <<polls, pollFrame>>

(***************************************************************************)
(* The pipeline: the ingest handler on single-record batches, together     *)
(* with the extraction service, both downstream handlers and status polls. *)
(***************************************************************************)
\* no invocation of the completion handler is under way
NoCompletionInFlight == \A i \in 1..MaxCompletions : comp[i].pc \in {"idle", "retired"}

\* the documents that get past validation, one for each path
PipelineBodies == {b \in IngestBodies : b.valid /\ b.contentType # NULL}

\* one model output that passes validation and one that does not
PipelineOutputs == {ValidOutput, [ValidOutput EXCEPT !.documentType = "INVOICE"]}

\* the configured knowledge base is active and answers
PipelineKnowledgeBases ==
  {run \in KnowledgeBaseRuns : run.existing = "ACTIVE" /\ run.create /\ run.query}

Next ==
  \/ \E m \in 1..MaxDocuments, body \in PipelineBodies : IngestSend(m, body)
  \/ \E m \in IngestIds : IngestReceive({m})
  \/ \E m \in IngestIds : processRecord(m, "none", TRUE)
  \/ \E m \in IngestIds, ok \in BOOLEAN : processDocument_Finish(m, ok, TRUE)
  \/ IngestReturn
  \/ \E x \in 1..MaxJobs, status \in {"SUCCEEDED", "FAILED"} : TextractFinish(x, status)
  \/ \E i \in 1..MaxCompletions, x \in 1..MaxJobs :
       NoCompletionInFlight /\ CompletionReceive(i, x)
  \/ \E i \in 1..MaxCompletions : processTextractCompletion_Find(i)
  \/ \E i \in 1..MaxCompletions : processTextractCompletion_StoreRaw(i)
  \/ \E i \in 1..MaxCompletions : processTextractCompletion_StoreFormatted(i)
  \/ \E i \in 1..MaxCompletions : processTextractCompletion_Trigger(i)
  \/ \E i \in 1..MaxCompletions : processTextractCompletion_Update(i)
  \/ \E i \in 1..MaxCompletions : CompletionReturn(i)
  \/ \E j \in 1..MaxJobs, prefix \in {"extracted", "formatted"} :
       ExternalClassificationSend(j, <<prefix, DocumentId(j)>>)
  \/ \E msg \in BagToSet(clsQ) : ClassificationReceive(msg)
  \/ \E run \in PipelineKnowledgeBases, output \in PipelineOutputs :
       processClassificationRecord_Classify(run, output)
  \/ storeClassificationResults_Put
  \/ storeClassificationResults_UpdateJob
  \/ ClassificationReturn
  \/ \E j \in 1..MaxJobs : getJobStatus_Read(j)
  \/ \E gatewayStatus \in GatewayStatuses : getJobStatus_Update(gatewayStatus)

Spec == Init /\ [][Next]_vars

(***************************************************************************)
(* Redelivery: the documents of the asynchronous path, the extraction      *)
(* service and the completion handler, whose invocations overlap freely.   *)
(***************************************************************************)
AsyncBodies == {b \in PipelineBodies : ~useSync(b.fileSize)}

NextRedelivery ==
  \/ \E m \in 1..MaxDocuments, body \in AsyncBodies : IngestSend(m, body)
  \/ \E m \in IngestIds : IngestReceive({m})
  \/ \E m \in IngestIds : processRecord(m, "none", TRUE)
  \/ \E m \in IngestIds, ok \in BOOLEAN : processDocument_Finish(m, ok, TRUE)
  \/ IngestReturn
  \/ \E x \in 1..MaxJobs, status \in {"SUCCEEDED", "FAILED"} : TextractFinish(x, status)
  \/ \E i \in 1..MaxCompletions, x \in 1..MaxJobs : CompletionReceive(i, x)
  \/ \E i \in 1..MaxCompletions : processTextractCompletion_Find(i)
  \/ \E i \in 1..MaxCompletions : processTextractCompletion_StoreRaw(i)
  \/ \E i \in 1..MaxCompletions : processTextractCompletion_StoreFormatted(i)
  \/ \E i \in 1..MaxCompletions : processTextractCompletion_Trigger(i)
  \/ \E i \in 1..MaxCompletions : processTextractCompletion_Update(i)
  \/ \E i \in 1..MaxCompletions : CompletionReturn(i)

SpecRedelivery == Init /\ [][NextRedelivery]_vars

(***************************************************************************)
(* Classification: documents of the asynchronous path whose extraction     *)
(* succeeds, the completion handler, and the classification handler given  *)
(* every kind of model output.                                             *)
(***************************************************************************)
NextClassification ==
  \/ \E m \in 1..MaxDocuments, body \in AsyncBodies : IngestSend(m, body)
  \/ \E m \in IngestIds : IngestReceive({m})
  \/ \E m \in IngestIds : processRecord(m, "none", TRUE)
  \/ \E m \in IngestIds : processDocument_Finish(m, TRUE, TRUE)
  \/ IngestReturn
  \/ \E x \in 1..MaxJobs : TextractFinish(x, "SUCCEEDED")
  \/ \E i \in 1..MaxCompletions, x \in 1..MaxJobs :
       NoCompletionInFlight /\ CompletionReceive(i, x)
  \/ \E i \in 1..MaxCompletions : processTextractCompletion_Find(i)
  \/ \E i \in 1..MaxCompletions : processTextractCompletion_StoreRaw(i)
  \/ \E i \in 1..MaxCompletions : processTextractCompletion_StoreFormatted(i)
  \/ \E i \in 1..MaxCompletions : processTextractCompletion_Trigger(i)
  \/ \E i \in 1..MaxCompletions : processTextractCompletion_Update(i)
  \/ \E i \in 1..MaxCompletions : CompletionReturn(i)
  \/ \E j \in 1..MaxJobs, prefix \in {"extracted", "formatted"} :
       ExternalClassificationSend(j, <<prefix, DocumentId(j)>>)
  \/ \E msg \in BagToSet(clsQ) : ClassificationReceive(msg)
  \/ \E run \in KnowledgeBaseRuns, output \in LlmOutputs :
       processClassificationRecord_Classify(run, output)
  \/ storeClassificationResults_Put
  \/ storeClassificationResults_UpdateJob
  \/ ClassificationReturn

SpecClassification == Init /\ [][NextClassification]_vars

(***************************************************************************)
(* The same handlers with a knowledge base that answers and a model output *)
(* that is valid, where every handler that can take a step eventually      *)
(* does: the event sources keep delivering what is on their queues.        *)
(***************************************************************************)
NextClassified ==
  \/ \E m \in 1..MaxDocuments, body \in AsyncBodies : IngestSend(m, body)
  \/ \E m \in IngestIds : IngestReceive({m})
  \/ \E m \in IngestIds : processRecord(m, "none", TRUE)
  \/ \E m \in IngestIds : processDocument_Finish(m, TRUE, TRUE)
  \/ IngestReturn
  \/ \E x \in 1..MaxJobs : TextractFinish(x, "SUCCEEDED")
  \/ \E i \in 1..MaxCompletions, x \in 1..MaxJobs :
       NoCompletionInFlight /\ CompletionReceive(i, x)
  \/ \E i \in 1..MaxCompletions : processTextractCompletion_Find(i)
  \/ \E i \in 1..MaxCompletions : processTextractCompletion_StoreRaw(i)
  \/ \E i \in 1..MaxCompletions : processTextractCompletion_StoreFormatted(i)
  \/ \E i \in 1..MaxCompletions : processTextractCompletion_Trigger(i)
  \/ \E i \in 1..MaxCompletions : processTextractCompletion_Update(i)
  \/ \E i \in 1..MaxCompletions : CompletionReturn(i)
  \/ \E msg \in BagToSet(clsQ) : ClassificationReceive(msg)
  \/ \E run \in PipelineKnowledgeBases :
       processClassificationRecord_Classify(run, ValidOutput)
  \/ storeClassificationResults_Put
  \/ storeClassificationResults_UpdateJob
  \/ ClassificationReturn

SpecClassified == Init /\ [][NextClassified]_vars /\ WF_vars(NextClassified)

(***************************************************************************)
(* The repository on its own: callers create rows and update them with     *)
(* updateJobStatus and updateJob, whose two requests (the query of getJob, *)
(* then the UpdateItem on the primary key that was read) interleave with   *)
(* the requests of the other callers.                                      *)
(***************************************************************************)
StoreJobIds == {JobId(1), JobId(2)}
StoreDocumentIds == {DocumentId(1), DocumentId(2)}
StoreInstants == 1..2
StoreHandles == {TextractJobId(1), TextractJobId(2)}

\* the (status, errorMessage) pairs updateJobStatus is called with
StatusUpdates ==
  {<<IN_PROGRESS, NULL>>, <<FAILED, "Failed to start document analysis">>,
   <<EXTRACTED, NULL>>}

\* the job object processDocument hands to createJob
StoreJob(jobId, documentId) ==
  [jobId |-> jobId, documentId |-> documentId, bucket |-> Bucket,
   key |-> <<"uploads", 1>>, status |-> SUBMITTED,
   textractFeatures |-> {"TABLES", "FORMS"},
   textractJobId |-> NoId, completedAt |-> NULL, errorMessage |-> NULL]

\* callers are taken in order
NextCaller(c) ==
  calls[c].pc = "idle" /\ \A k \in 1..MaxCallers : k < c => calls[k].pc # "idle"

storeFrame ==
  <<s3, ingQ, ing, handlerVars, tx, comp, clsQ, clsDLQ, cls, externalSent,
    poll, polls, variant, serviceVars>>

\* createJob(job): one conditional PutItem
createJob_Call(c, job, now) ==
  /\ NextCaller(c)
  /\ Len(jobs) < MaxJobs \/ createJobRefused(jobs, job, now)
  /\ jobs' = createJob(jobs, job, now)
  /\ calls' = [calls EXCEPT ![c] =
                 [IdleCall EXCEPT !.pc = "returned", !.op = "createJob",
                                  !.jobId = job.jobId,
                                  !.key = keyOf(fullJob(job, now)),
                                  !.result = IF createJobRefused(jobs, job, now)
                                             THEN "DatabaseError" ELSE "created"]]
  /\ UNCHANGED storeFrame

\* the getJob of updateJobStatus / updateJob: no row, return null; else keep
\* the primary key of the first item of the query
update_Get(c, call) ==
  /\ NextCaller(c)
  /\ IF jobsWithId(jobs, call.jobId) = {}
     THEN calls' = [calls EXCEPT ![c] = [call EXCEPT !.pc = "returned", !.result = "null"]]
     ELSE \E i \in jobsWithId(jobs, call.jobId) :
            calls' = [calls EXCEPT ![c] = [call EXCEPT !.pc = "update", !.key = keyOf(jobs[i])]]
  /\ UNCHANGED <<jobs, storeFrame>>

updateJobStatus_Get(c, jobId, status, errorMessage) ==
  update_Get(c, [IdleCall EXCEPT !.op = "updateJobStatus", !.jobId = jobId,
                                 !.status = status, !.errorMessage = errorMessage])

updateJob_Get(c, jobId, textractJobId) ==
  update_Get(c, [IdleCall EXCEPT !.op = "updateJob", !.jobId = jobId,
                                 !.textractJobId = textractJobId])

\* the UpdateItem of updateJobStatus, ReturnValues ALL_NEW
updateJobStatus_Update(c) ==
  /\ calls[c].pc = "update"
  /\ calls[c].op = "updateJobStatus"
  /\ jobs' = setJobStatus(jobs, rowOfKey(jobs, calls[c].key),
                          calls[c].status, calls[c].errorMessage)
  /\ calls' = [calls EXCEPT ![c].pc = "returned", ![c].result = "job"]
  /\ UNCHANGED storeFrame

\* the UpdateItem of updateJob, ReturnValues ALL_NEW
updateJob_Update(c) ==
  /\ calls[c].pc = "update"
  /\ calls[c].op = "updateJob"
  /\ jobs' = setAttributes(jobs, rowOfKey(jobs, calls[c].key),
                           [textractJobId |-> calls[c].textractJobId])
  /\ calls' = [calls EXCEPT ![c].pc = "returned", ![c].result = "job"]
  /\ UNCHANGED storeFrame

NextStore ==
  \/ \E c \in 1..MaxCallers, jobId \in StoreJobIds, documentId \in StoreDocumentIds,
        now \in StoreInstants : createJob_Call(c, StoreJob(jobId, documentId), now)
  \/ \E c \in 1..MaxCallers, jobId \in StoreJobIds, u \in StatusUpdates :
       updateJobStatus_Get(c, jobId, u[1], u[2])
  \/ \E c \in 1..MaxCallers, jobId \in StoreJobIds, x \in StoreHandles :
       updateJob_Get(c, jobId, x)
  \/ \E c \in 1..MaxCallers : updateJobStatus_Update(c)
  \/ \E c \in 1..MaxCallers : updateJob_Update(c)

SpecStore == Init /\ [][NextStore]_vars

(***************************************************************************)
(* Properties.                                                             *)
(***************************************************************************)
\* the metadata.fileSize of the message row j was created for
FileSizeOf(j) == ingQ[jobs[j].key[2]].body.fileSize

\* the row the processDocument invocation that started job x created
OriginOf(textractJobId) == tx[textractJobId[2]].startedBy

\* the step in which record m's processDocument returns normally
Returns(m) == ing[m].pc \in {"extracted", "started"} /\ ing'[m].pc = "returned"

\* C1: in every reachable state of the pipeline, a job row has completedAt
\* set if and only if its status is SUCCEEDED, FAILED or PARTIAL_SUCCESS.
C1_CompletedAtIffTerminal ==
  \A j \in DOMAIN jobs :
    (jobs[j].completedAt # NULL) <=> (jobs[j].status \in {SUCCEEDED, FAILED, PARTIAL_SUCCESS})

\* C2: once a job row has status SUCCEEDED or FAILED, no step of any handler
\* writes a different status to it.
C2_TerminalStatusKept ==
  [][\A j \in DOMAIN jobs :
       jobs[j].status \in {SUCCEEDED, FAILED} => jobs'[j].status = jobs[j].status]_vars

\* the result artifacts the completion handler leaves for a job
ExpectedArtifacts(job) ==
  {<<job.bucket, <<"extracted", job.documentId>>>>}
    \cup (IF variant = "plain" THEN {}
          ELSE {<<job.bucket, <<"formatted", job.documentId>>>>})

C4_BatchItemFailuresExact ==
  [][(batch # {} /\ batch' = {}) =>
       LET reported == response'.batchItemFailures
           threw == {m \in batch : ing[m].pc = "threw"}
       IN /\ response'.returned
          /\ {reported[i].itemIdentifier : i \in DOMAIN reported} = threw
          /\ Len(reported) = Cardinality(threw)
          /\ \A m \in batch :
               \/ ing[m].pc = "threw"
               \/ /\ ing[m].pc = "returned"
                  /\ jobs'[ing[m].job].status =
                       (IF ing[m].sync THEN SUCCEEDED ELSE IN_PROGRESS)
                  /\ jobs'[ing[m].job].textractJobId = ing[m].textractJobId]_vars

\* C4 witness: a batch of two records has returned with exactly one of them
\* reported as failed.
C4_Witness ==
  /\ response.returned
  /\ Cardinality(lastBatch) = 2
  /\ Len(response.batchItemFailures) = 1

\* C5: a classification message whose key is not in the bucket, once its
\* handler invocation has failed in validateDocument and returned, is back
\* on the queue or on the dead-letter queue (it was reported as failed).
C5_MissingKeyReportedFailed ==
  [][(cls.pc = "threw" /\ cls.error = "Document not found" /\ cls'.pc = "idle") =>
       CopiesIn(cls.msg, clsQ') + CopiesIn(cls.msg, clsDLQ')
         > CopiesIn(cls.msg, clsQ) + CopiesIn(cls.msg, clsDLQ)]_vars

\* C6 as stated: no completion handler invocation ever fails to find the
\* job row of its notification.
C6_NotificationAlwaysResolves ==
  \A i \in 1..MaxCompletions : comp[i].error # "Job not found in database"

\* C6, what does hold: the lookup of a completion notification for external
\* job X finds the row of the processDocument invocation that started X exactly when
\* that row carries textractJobId = X at the time of the lookup; otherwise
\* it finds no row.
C6_ResolvesOnceHandleWritten ==
  [][\A i \in 1..MaxCompletions :
       (comp[i].pc = "find" /\ comp'[i].pc # "find") =>
         LET X == comp[i].textractJobId
             origin == OriginOf(X)
         IN IF jobs[origin].textractJobId = X
            THEN /\ comp'[i].error # "Job not found in database"
                 /\ comp'[i].pc = "storeRaw" => comp'[i].job = origin
            ELSE /\ comp'[i].pc = "threw"
                 /\ comp'[i].error = "Job not found in database"]_vars

\* C7: a row created for a document with 0 < fileSize < 5 MiB never carries
\* a textractJobId, and its processDocument returns from the synchronous
\* path; processDocument for a document with fileSize >= 5 MiB returns from
\* the asynchronous path, and at that return the row carries the
\* textractJobId of the job it started.
C7_PathBySize ==
  /\ [](\A j \in DOMAIN jobs :
          (0 < FileSizeOf(j) /\ FileSizeOf(j) < SyncSizeThresholdBytes) => jobs[j].textractJobId = NoId)
  /\ [][\A m \in IngestIds :
          Returns(m) =>
            LET j == ing[m].job IN
              /\ (0 < FileSizeOf(j) /\ FileSizeOf(j) < SyncSizeThresholdBytes) =>
                   (ing[m].pc = "extracted" /\ jobs'[j].textractJobId = NoId)
              /\ FileSizeOf(j) >= SyncSizeThresholdBytes =>
                   /\ ing[m].pc = "started"
                   /\ jobs'[j].textractJobId # NoId
                   /\ jobs'[j].textractJobId = ing[m].textractJobId]_vars

\* C7 witness: processDocument has returned for a document of exactly the
\* threshold size and its row carries a textractJobId.
C7_Witness ==
  \E m \in IngestIds :
    /\ ing[m].pc = "returned"
    /\ FileSizeOf(ing[m].job) = SyncSizeThresholdBytes
    /\ jobs[ing[m].job].textractJobId # NoId

\* C8: at the step in which processDocument returns normally the row's
\* status is IN_PROGRESS on the asynchronous path and SUCCEEDED, written by
\* that very step, on the synchronous path; the rest of the invocation (the
\* handler's return) writes nothing to the table.
C8_StatusAtReturn ==
  [][/\ \A m \in IngestIds :
          Returns(m) =>
            IF ing[m].sync
            THEN jobs[ing[m].job].status = IN_PROGRESS /\ jobs'[ing[m].job].status = SUCCEEDED
            ELSE jobs'[ing[m].job].status = IN_PROGRESS
     /\ (batch # {} /\ batch' = {}) => jobs' = jobs]_vars

\* C8 witness: processDocument has returned from the asynchronous path and
\* the row is IN_PROGRESS.
C8_Witness ==
  \E m \in IngestIds :
    /\ ing[m].pc = "returned"
    /\ ~ing[m].sync
    /\ jobs[ing[m].job].status = IN_PROGRESS

C10_ThrowMarksFailed ==
  [][/\ \A i \in 1..MaxCompletions :
          (comp[i].pc = "threw" /\ comp'[i].pc = "retired" /\ comp[i].job # 0
             /\ jobs[comp[i].job].status \in {IN_PROGRESS, EXTRACTED}) =>
            /\ jobs'[comp[i].job].status = FAILED
            /\ jobs'[comp[i].job].errorMessage # NULL
     /\ \A j \in DOMAIN jobs :
          (cls.pc = "threw" /\ cls'.pc = "idle"
             /\ cls.msg.documentId = jobs[j].documentId
             /\ jobs[j].status \in {IN_PROGRESS, EXTRACTED}) =>
            /\ jobs'[j].status = FAILED
            /\ jobs'[j].errorMessage # NULL]_vars

\* the step in which record m's processDocument throws out of its inner catch
ThrowsFromCatch(m) ==
  ing[m].pc # "threw" /\ ing'[m].pc = "threw" /\ ing'[m].caught # NULL

\* the messageIds the handler returned as batchItemFailures
ReportedFailures(resp) ==
  {resp.batchItemFailures[i].itemIdentifier : i \in DOMAIN resp.batchItemFailures}

\* C11 as stated: whenever a gateway call or a status/handle update of
\* processDocument fails after the row was created, the row is FAILED with
\* errorMessage equal to the message of the error that was caught, and the
\* record is reported in batchItemFailures.
C11_FailureAlwaysMarksFailed ==
  [][/\ \A m \in IngestIds :
          ThrowsFromCatch(m) =>
            /\ jobs'[ing'[m].job].status = FAILED
            /\ jobs'[ing'[m].job].errorMessage = ing'[m].caught
            /\ m \in {failedMessageIds'[i] : i \in DOMAIN failedMessageIds'}
     /\ (batch # {} /\ batch' = {}) =>
          \A m \in batch : ing[m].caught # NULL => m \in ReportedFailures(response')]_vars

\* C11: whenever a gateway call or a status/handle update of processDocument
\* fails after the row was created, an error is thrown and the record is
\* reported in batchItemFailures; the row is FAILED with errorMessage equal
\* to the message of the error that was caught exactly when the store
\* accepted the updateJobStatus(FAILED) of the catch, and otherwise keeps the
\* status it had (SUBMITTED or IN_PROGRESS) and carries no errorMessage.
C11_FailureMarksFailedWhenWritten ==
  [][/\ \A m \in IngestIds :
          ThrowsFromCatch(m) =>
            /\ ing'[m].job \in DOMAIN jobs'
            /\ m \in {failedMessageIds'[i] : i \in DOMAIN failedMessageIds'}
            /\ IF ing'[m].origin # "updateJobStatus(FAILED)"
               THEN /\ jobs'[ing'[m].job].status = FAILED
                    /\ jobs'[ing'[m].job].errorMessage = ing'[m].caught
                    /\ jobs'[ing'[m].job].completedAt # NULL
                    /\ ing'[m].error = ing'[m].caught
               ELSE /\ jobs'[ing'[m].job].status \in {SUBMITTED, IN_PROGRESS}
                    /\ jobs'[ing'[m].job].errorMessage = NULL
     /\ (batch # {} /\ batch' = {}) =>
          \A m \in batch : ing[m].caught # NULL => m \in ReportedFailures(response')]_vars

\* C11 witness: the handler has returned a batch in which a record's
\* extraction call failed; its row is FAILED with the extraction error's
\* message and the record was reported.
C11_Witness ==
  /\ response.returned
  /\ \E j \in DOMAIN jobs :
       /\ jobs[j].status = FAILED
       /\ jobs[j].errorMessage \in {extractionMessage(TRUE), extractionMessage(FALSE)}
       /\ jobs[j].key[2] \in ReportedFailures(response)

\* C12: when the extraction call of processDocument has failed and the
\* updateJobStatus(FAILED) of the catch fails too, the error that
\* processDocument throws is the extraction error.
C12_ExtractionErrorNotMasked ==
  [][\A m \in IngestIds :
       (ThrowsFromCatch(m)
          /\ ing'[m].caught \in {extractionMessage(TRUE), extractionMessage(FALSE)}) =>
         /\ ing'[m].origin = "extraction"
         /\ ing'[m].error = ing'[m].caught]_vars

\* the ingest message row j was created for
MessageOf(j) == jobs[j].key[2]

\* C13: all the rows created for one ingest message, however often it was
\* delivered, carry the same documentId.
C13_DocumentIdStable ==
  \A j, k \in DOMAIN jobs :
    MessageOf(j) = MessageOf(k) => jobs[j].documentId = jobs[k].documentId

\* C14: whenever the completion handler puts a classification message on
\* the queue, the job row of that document already has status EXTRACTED.
C14_EnqueuedOnlyWhenExtracted ==
  [][\A i \in 1..MaxCompletions :
       (comp[i].pc = "trigger" /\ comp'[i].pc = "update" /\ clsQ' # clsQ) =>
         jobs[comp[i].job].status = EXTRACTED]_vars

\* C15: a completion notification whose JobId matches no row makes its
\* record throw 'Job not found in database' without having touched a row, an
\* artifact or the classification queue; neither that throw nor the return
\* that follows changes the table, the bucket, the queue or any other
\* record's processing, and the invocation ends normally (it is not retried).
C15_UnknownJobIsolated ==
  /\ [](\A i \in 1..MaxCompletions :
          comp[i].error = "Job not found in database" =>
            comp[i].pc = "threw" /\ comp[i].job = 0)
  /\ [][\A i \in 1..MaxCompletions :
          /\ (comp[i].pc = "find" /\ comp'[i] # comp[i]
                /\ findJobsByTextractJobId(jobs, comp[i].textractJobId) = {}) =>
               /\ comp'[i].pc = "threw"
               /\ comp'[i].error = "Job not found in database"
               /\ jobs' = jobs /\ s3' = s3 /\ clsQ' = clsQ /\ tx' = tx
               /\ \A k \in 1..MaxCompletions : k # i => comp'[k] = comp[k]
          /\ (comp[i].error = "Job not found in database" /\ comp'[i] # comp[i]) =>
               /\ comp'[i].pc = "retired"
               /\ jobs' = jobs /\ s3' = s3 /\ clsQ' = clsQ /\ tx' = tx
               /\ \A k \in 1..MaxCompletions : k # i => comp'[k] = comp[k]]_vars

\* C15 witness: one record has thrown 'Job not found in database' and
\* another record has been processed to its end.
C15_Witness ==
  \E i, k \in 1..MaxCompletions :
    /\ comp[i].error = "Job not found in database"
    /\ comp[k].pc = "done"

\* C16: the completion handler fetches the results of a job with the
\* analysis API if and only if the row's textractFeatures is not empty, with
\* the text-detection API otherwise, and the API it fetches with is the one
\* the external job was started with.
C16_FetchApiMatchesStart ==
  [][\A i \in 1..MaxCompletions :
       (comp[i].pc = "find" /\ comp'[i].job # 0) =>
         /\ comp'[i].api = (IF jobs[comp'[i].job].textractFeatures # {}
                            THEN "analysis" ELSE "detection")
         /\ comp'[i].api = tx[comp[i].textractJobId[2]].api]_vars

\* C16 witness: a notification has been processed to its end with results
\* fetched through the analysis API.
C16_Witness ==
  \E i \in 1..MaxCompletions : comp[i].pc = "done" /\ comp[i].api = "analysis"

\* caller c's call has written to the row with that primary key
HasWritten(c, key) ==
  calls[c].pc = "returned" /\ calls[c].result = "job" /\ calls[c].key = key

\* C17: when an updateJob(jobId, {textractJobId: x}) and an
\* updateJobStatus(jobId, s) have both written to the same row, in whatever
\* order their requests interleaved, and no third call has written to it,
\* the row has textractJobId = x and status = s; every write changes only
\* the attributes it names, in the one row it addresses.
C17_BothWritesTakeEffect ==
  /\ [](\A c1, c2 \in 1..MaxCallers :
          (/\ calls[c1].op = "updateJob" /\ HasWritten(c1, calls[c1].key)
           /\ calls[c2].op = "updateJobStatus" /\ HasWritten(c2, calls[c1].key)
           /\ \A c3 \in 1..MaxCallers \ {c1, c2} : ~HasWritten(c3, calls[c1].key)) =>
            LET row == jobs[rowOfKey(jobs, calls[c1].key)] IN
              /\ row.textractJobId = calls[c1].textractJobId
              /\ row.status = calls[c2].status)
  /\ [][\A c \in 1..MaxCallers :
          (calls[c].pc = "update" /\ calls'[c].pc = "returned") =>
            LET r == rowOfKey(jobs, calls[c].key)
                written == IF calls[c].op = "updateJob" THEN {"textractJobId"}
                           ELSE {"status", "completedAt", "errorMessage"}
            IN /\ Len(jobs') = Len(jobs)
               /\ \A i \in DOMAIN jobs : i # r => jobs'[i] = jobs[i]
               /\ \A f \in DOMAIN jobs[r] \ written : jobs'[r][f] = jobs[r][f]]_vars

\* C17 witness: an updateJob and an updateJobStatus on the same row have
\* both returned, and the row carries the handle and a status other than
\* the one it was created with.
C17_Witness ==
  \E c1, c2 \in 1..MaxCallers :
    /\ calls[c1].op = "updateJob" /\ HasWritten(c1, calls[c1].key)
    /\ calls[c2].op = "updateJobStatus" /\ HasWritten(c2, calls[c1].key)
    /\ jobs[rowOfKey(jobs, calls[c1].key)].textractJobId = calls[c1].textractJobId
    /\ jobs[rowOfKey(jobs, calls[c1].key)].status = FAILED

\* C18: createJob called with a jobId that some row of the table already
\* has fails and leaves the table as it was.
C18_CreateJobRefusesKnownJobId ==
  [][\A c \in 1..MaxCallers :
       (calls[c].pc = "idle" /\ calls'[c].op = "createJob"
          /\ jobsWithId(jobs, calls'[c].jobId) # {}) =>
         /\ calls'[c].result = "DatabaseError"
         /\ jobs' = jobs]_vars

\* no row of the table has that jobId
NoRowHas(jobId) == \A i \in DOMAIN jobs : jobs[i].jobId # jobId

\* C19: updateJobStatus and updateJob called with a jobId that no row has
\* return null without throwing and leave the table as it was.
C19_UpdateOfMissingJobReturnsNull ==
  /\ [](\A jobId \in StoreJobIds :
          NoRowHas(jobId) =>
            /\ \A u \in StatusUpdates : updateJobStatus(jobs, jobId, u[1], u[2]) = jobs
            /\ \A x \in StoreHandles : updateJob(jobs, jobId, [textractJobId |-> x]) = jobs)
  /\ [][\A c \in 1..MaxCallers :
          (calls[c].pc = "idle" /\ calls'[c].op \in {"updateJob", "updateJobStatus"}
             /\ NoRowHas(calls'[c].jobId)) =>
            /\ calls'[c].pc = "returned"
            /\ calls'[c].result = "null"
            /\ jobs' = jobs]_vars

\* C19 witness: with a row in the table, an updateJob and an
\* updateJobStatus for a jobId that no row has have both returned null.
C19_Witness ==
  /\ jobs # <<>>
  /\ \E c1, c2 \in 1..MaxCallers :
       /\ calls[c1].op = "updateJob" /\ calls[c1].result = "null"
       /\ calls[c2].op = "updateJobStatus" /\ calls[c2].result = "null"
       /\ NoRowHas(calls[c1].jobId)
       /\ NoRowHas(calls[c2].jobId)

\* the model output has every required property and a documentType.type of
\* the fixed enumeration
InEnumeration(output) ==
  /\ output.invoked /\ output.json
  /\ output.overallConfidence /\ output.confidence /\ output.summary
  /\ output.documentType \in
       {"KYC_FORM", "CREDIT_APPLICATION", "LOAN_CONTRACT", "BANK_STATEMENT",
        "TRANSACTION_RECEIPT", "ID_CARD", "PASSPORT", "UTILITY_BILL",
        "SALARY_SLIP", "OTHER"}

\* C20: a classification whose model output misses a required property or
\* has a documentType.type outside the fixed enumeration throws; no step of
\* that invocation writes an object to the bucket or anything to the job
\* table, and an invocation is past the classification step only with an
\* output that has passed.
C20_InvalidOutputNeverPersisted ==
  /\ [](cls.pc \in {"store", "updateJob", "returned"} => InEnumeration(cls.output))
  /\ [][(cls.pc = "validate" /\ cls'.pc # "validate"
           /\ cls'.error # "Document not found"
           /\ ~InEnumeration(cls'.output)) =>
          /\ cls'.pc = "threw"
          /\ cls'.error # NULL
          /\ jobs' = jobs /\ s3' = s3]_vars
  /\ [][(cls.pc = "threw" /\ cls' # cls) =>
          /\ cls'.pc = "idle"
          /\ jobs' = jobs /\ s3' = s3]_vars

\* C20 witness: a classification whose output named a documentType.type
\* outside the enumeration has thrown, for a document whose job is EXTRACTED
\* and has no classification result.
C20_Witness ==
  /\ cls.pc = "threw"
  /\ cls.output.documentType = "INVOICE"
  /\ \E j \in DOMAIN jobs :
       /\ jobs[j].documentId = cls.msg.documentId
       /\ jobs[j].status = EXTRACTED
       /\ <<jobs[j].bucket, <<"classified", jobs[j].documentId>>>> \notin s3

\* the errors of the final classification call: the model invocation, the
\* parsing of its answer and the validation of the parsed answer
ClassificationCallErrors ==
  {"Classification failed", "Failed to parse JSON from LLM response",
   "Schema validation failed"}

\* C21 (as claimed): for a message whose document exists, processing throws
\* only with an error of the final classification call; a failure of the
\* existing-index check, of provisioning or of the index query falls back to
\* direct classification.
C21_OnlyClassificationCallFails ==
  cls.pc = "threw" /\ cls.error # "Document not found" =>
    cls.error \in ClassificationCallErrors

\* C22 (as claimed): an invocation queries a knowledge base only after it
\* has observed the status ACTIVE for it.
C22_QueriedOnlyWhenObservedActive ==
  cls.kb.queried # NULL => cls.kb.observed = "ACTIVE" /\ ~cls.kb.created

\* C23: processDocument on a valid message whose key has an extension that,
\* lowered, is none of .pdf .png .jpg .jpeg .tiff .tif throws a
\* ValidationError, creates no job row and starts no extraction.
C23_UnsupportedExtensionRejected ==
  [][\A m \in IngestIds :
       (/\ ing[m].pc = "received" /\ ing'[m].pc # "received"
        /\ ingQ[m].body.valid
        /\ toLowerCase(ingQ[m].body.ext) \notin
             {".pdf", ".png", ".jpg", ".jpeg", ".tiff", ".tif"}) =>
         /\ ing'[m].pc = "threw"
         /\ ing'[m].thrown = "ValidationError"
         /\ ing'[m].error = "Unsupported document format for Textract"
         /\ jobs' = jobs
         /\ tx' = tx]_vars

\* C23 witness: a message whose key ends in .TXT has been rejected with a
\* ValidationError while no job row exists, and one whose key ends in .PNG
\* was accepted before it.
C23_Witness ==
  \E m, k \in IngestIds :
    /\ ingQ[m].body.ext = ".TXT"
    /\ ing[m].pc = "threw" /\ ing[m].thrown = "ValidationError"
    /\ ingQ[k].body.ext = ".PNG" /\ ingQ[k].state = "deleted"
    /\ Len(jobs) = 1

\* C24 (as claimed): a message whose processing raises ValidationError is
\* handed to the handler at most once.
C24_ValidationErrorNotRetried ==
  \A m \in IngestIds :
    ing[m].pc = "threw" /\ ing[m].thrown = "ValidationError" =>
      ingQ[m].receiveCount <= 1

\* C25: getCompletionStatus makes at most maxAttempts ReceiveMessage calls,
\* every iteration that does not return uses up one attempt, a call that has
\* started returns, and it returns null when no response held a message of
\* the expected job, also when every receive failed.
C25_CompletionStatusTerminates ==
  /\ [](notification.receives <= notification.maxAttempts)
  /\ [](notification.pc = "returned" /\ ~notification.matchReceived =>
          notification.result = NullStatus)
  /\ [][notification.pc = "loop" /\ notification'.pc = "loop" =>
          notification'.attempt = notification.attempt + 1]_vars
  /\ (notification.pc = "loop" ~> notification.pc = "returned")

\* C25 witness: a call with maxAttempts = 3 has returned null after three
\* receive calls, the last of which failed, and no response held a message
\* of the expected job.
C25_Witness ==
  /\ notification.pc = "returned"
  /\ notification.maxAttempts = MaxAttempts
  /\ notification.receives = notification.maxAttempts
  /\ notification.last.failed
  /\ ~notification.matchReceived
  /\ notification.result = NullStatus

\* C26: the documents a retryFailedDocuments call works on are items its
\* scan read in ERROR; each iteration either resets that one document to
\* METADATA_STORED and appends its id to retriedIds, or changes neither; no
\* other step of the call writes to the table, and no other item is touched.
C26_RetryResetsOnlyErrorDocuments ==
  /\ [][\A c \in 1..MaxRetriers :
          (retry[c].pc # "loop" /\ retry'[c].pc = "loop") =>
            /\ documents' = documents
            /\ \A k \in DOMAIN retry'[c].documents :
                 /\ retry'[c].documents[k].status = "ERROR"
                 /\ retry'[c].documents[k] =
                      documents[retry'[c].documents[k].documentId]]_vars
  /\ [][\A c \in 1..MaxRetriers :
          (retry[c].pc = "loop" /\ retry'[c] # retry[c]) =>
            IF retry'[c].retriedIds = retry[c].retriedIds
            THEN documents' = documents
            ELSE LET id == retry[c].documents[retry[c].k].documentId IN
                   /\ retry'[c].retriedIds = Append(retry[c].retriedIds, id)
                   /\ documents'[id].status = "METADATA_STORED"
                   /\ DOMAIN documents' = DOMAIN documents
                   /\ \A i \in DOMAIN documents \ {id} :
                        documents'[i] = documents[i]]_vars
  /\ [](\A c \in 1..MaxRetriers : \A n \in DOMAIN retry[c].retriedIds :
          \E k \in DOMAIN retry[c].documents :
            /\ k < retry[c].k
            /\ retry[c].documents[k].documentId = retry[c].retriedIds[n]
            /\ retry[c].documents[k].status = "ERROR")

\* C26 witness: a call has returned the id of the one document that was in
\* ERROR, which is now METADATA_STORED, while the other document is still
\* PROCESSED.
C26_Witness ==
  \E c \in 1..MaxRetriers :
    /\ retry[c].pc = "returned"
    /\ retry[c].retriedIds = <<2>>
    /\ Len(documents) = 2
    /\ documents[2].status = "METADATA_STORED"
    /\ documents[1].status = "PROCESSED"

\* the messages on the queue are those of the first n records, in order,
\* each with the record's bucket, its key decoded and its size as a string
SentForFirst(n) ==
  /\ Len(sent) = n
  /\ \A k \in 1..n :
       /\ sent[k].body.bucketName = s3Handler.records[k].bucket
       /\ sent[k].body.objectKey =
            decodeURIComponent(plusToSpace(s3Handler.records[k].key))
       /\ sent[k].body.fileSize = fileSizeOf(s3Handler.records[k].size)

\* C27 (as claimed): once processS3Event is over there is exactly one message
\* per record on the queue, carrying the record's bucket, key and size, and
\* the ids returned are those of the messages in record order.
C27_OneMessagePerRecord ==
  (s3Handler.pc \in {"returned", "threw"} /\ s3Handler.queueUrl # "") =>
    /\ Len(sent) = Len(s3Handler.records)
    /\ Len(s3Handler.messageIds) = Len(s3Handler.records)
    /\ \A k \in DOMAIN sent :
         /\ sent[k].body.bucketName = s3Handler.records[k].bucket
         /\ sent[k].body.objectKey = s3Handler.records[k].key
         /\ sent[k].body.fileSize = fileSizeOf(s3Handler.records[k].size)
         /\ s3Handler.messageIds[k] = sent[k].messageId

\* C27 (amended): when processS3Event returns, there is one message per
\* record, in record order, with the record's bucket, its key decoded (+ as
\* space, then the escapes) and its size as a string, and the ids returned
\* are theirs in that order; when it throws at a record, the messages of the
\* records before it have been sent and none for it or the later ones; an
\* event without records sends nothing and returns the empty list.
C27_OneMessagePerRecordUntilFailure ==
  /\ (s3Handler.pc = "returned" =>
        /\ SentForFirst(Len(s3Handler.records))
        /\ s3Handler.messageIds = [k \in DOMAIN sent |-> sent[k].messageId])
  /\ (s3Handler.pc = "threw" /\ s3Handler.queueUrl # "" =>
        /\ s3Handler.k <= Len(s3Handler.records)
        /\ SentForFirst(s3Handler.k - 1))
  /\ (s3Handler.pc = "loop" => SentForFirst(s3Handler.k - 1))

\* C27 witness: processS3Event has returned two ids for an event of two
\* records, the first with the key a+ and no size, and the queue holds the
\* key "a " with fileSize "0" for it.
C27_Witness ==
  /\ s3Handler.pc = "returned"
  /\ Len(s3Handler.records) = 2
  /\ s3Handler.records[1].key = <<"a", "+">>
  /\ s3Handler.records[1].size = -1
  /\ s3Handler.messageIds = <<1, 2>>
  /\ sent[1].body.objectKey = <<"a", " ">>
  /\ sent[1].body.fileSize = "0"

\* C28: without a queue URL the handler throws 'SQS_QUEUE_URL environment
\* variable is not defined' and nothing is sent; with one, what it returns
\* is the list of ids processS3Event returned.
C28_HandlerNeedsQueueUrl ==
  /\ (s3Handler.pc # "idle" /\ s3Handler.queueUrl = "" =>
        /\ s3Handler.pc = "threw"
        /\ s3Handler.error = "SQS_QUEUE_URL environment variable is not defined"
        /\ sent = <<>>)
  /\ (s3Handler.pc = "returned" =>
        /\ s3Handler.queueUrl # ""
        /\ s3Handler.response.messageIds = s3Handler.messageIds)
  /\ (s3Handler.pc # "returned" => s3Handler.response.messageIds = <<>>)

\* C28 witness: an event with two records was given to a handler without
\* queue URL, which threw while the queue is empty.
C28_Witness ==
  /\ s3Handler.pc = "threw"
  /\ s3Handler.queueUrl = ""
  /\ Len(s3Handler.records) = MaxRecords
  /\ sent = <<>>

\* C29: a job row that carries an errorMessage has status FAILED; a step that
\* writes an errorMessage to a row leaves that row FAILED, and no step takes
\* a row that carries one out of FAILED.
C29_ErrorMessageOnlyOnFailed ==
  /\ [](\A j \in DOMAIN jobs : jobs[j].errorMessage # NULL => jobs[j].status = FAILED)
  /\ [][\A j \in DOMAIN jobs :
          /\ (jobs'[j].errorMessage # jobs[j].errorMessage => jobs'[j].status = FAILED)
          /\ (jobs[j].errorMessage # NULL =>
                jobs'[j].status = FAILED /\ jobs'[j].errorMessage # NULL)]_vars

\* C29 witness: the row of an asynchronous document is FAILED with the
\* message of the rejected write of its external job id, and the completion
\* notification of that external job has been handled since.
C29_Witness ==
  \E j \in DOMAIN jobs, x \in DOMAIN tx, i \in 1..MaxCompletions :
    /\ jobs[j].status = FAILED
    /\ jobs[j].errorMessage = "Failed to update document job"
    /\ tx[x].startedBy = j
    /\ tx[x].state = "finished"
    /\ comp[i].textractJobId = TextractJobId(x)
    /\ comp[i].pc = "threw"

\* C30: whenever a job is EXTRACTED its bucket holds extracted/{documentId}
\* and, when the handler that stores the formatted result is deployed,
\* formatted/{documentId}; the step that writes EXTRACTED finds them there.
C30_ExtractedHasArtifacts ==
  /\ [](\A j \in DOMAIN jobs :
          jobs[j].status = EXTRACTED =>
            /\ <<jobs[j].bucket, <<"extracted", jobs[j].documentId>>>> \in s3
            /\ (variant # "plain" =>
                  <<jobs[j].bucket, <<"formatted", jobs[j].documentId>>>> \in s3))
  /\ [][\A j \in DOMAIN jobs :
          (jobs[j].status # EXTRACTED /\ jobs'[j].status = EXTRACTED) =>
            /\ <<jobs[j].bucket, <<"extracted", jobs[j].documentId>>>> \in s3
            /\ s3' = s3]_vars

\* C30 witness: with the handler that stores both results deployed, a job is
\* EXTRACTED and both objects of its document are in its bucket.
C30_Witness ==
  /\ variant = "autoTrigger"
  /\ \E j \in DOMAIN jobs :
       /\ jobs[j].status = EXTRACTED
       /\ <<jobs[j].bucket, <<"extracted", jobs[j].documentId>>>> \in s3
       /\ <<jobs[j].bucket, <<"formatted", jobs[j].documentId>>>> \in s3

\* C31: when the sqs-consumer handler has returned, every record that did
\* not parse to a body with bucket and key is in batchItemFailures and has no
\* item, and every other record has an item and is not in batchItemFailures.
C31_InvalidListedValidStored ==
  consumer.pc = "returned" =>
    \A i \in DOMAIN consumer.records :
      LET listed == \E k \in DOMAIN consumer.batchItemFailures :
                      consumer.batchItemFailures[k].itemIdentifier = i
          stored == \E d \in DOMAIN documents : documents[d].key = i
      IN  IF parseSQSRecord(consumer.records[i])
          THEN stored /\ ~listed
          ELSE listed /\ ~stored

\* C32: a step in which getJobStatus comes back from the gateway changes the
\* status of a row only if the row's stored status is IN_PROGRESS, and then to
\* SUCCEEDED, FAILED or PARTIAL_SUCCESS; it changes no other attribute of a
\* row it leaves in its status, and a call on a row that is not IN_PROGRESS
\* does not go to the gateway.
C32_PollWritesOnlyInProgress ==
  [][/\ (poll.pc = "gateway" /\ poll'.pc = "idle") =>
          \A j \in DOMAIN jobs :
            /\ jobs'[j].status # jobs[j].status =>
                 /\ jobs[j].status = IN_PROGRESS
                 /\ jobs'[j].status \in {SUCCEEDED, FAILED, PARTIAL_SUCCESS}
            /\ jobs'[j].status = jobs[j].status => jobs'[j] = jobs[j]
     /\ (poll.pc = "idle" /\ poll'.pc = "gateway") =>
          /\ jobs' = jobs
          /\ jobs[getJob(jobs, JobId(poll'.job))].status = IN_PROGRESS]_vars

\* C33: an invocation of the completion handler writes EXTRACTED to the job
\* row, or puts a classification message on the queue, only when the
\* notification it was invoked with carries Status SUCCEEDED, that is, when
\* the extraction job it names has succeeded.
C33_ExtractedOnlyOnSucceeded ==
  [][\A i \in 1..MaxCompletions :
       /\ (comp[i].pc = "update" /\ comp'[i].pc # "update" /\ jobs' # jobs) =>
            tx[comp[i].textractJobId[2]].status = "SUCCEEDED"
       /\ (comp[i].pc = "trigger" /\ comp'[i].pc # "trigger" /\ clsQ' # clsQ) =>
            tx[comp[i].textractJobId[2]].status = "SUCCEEDED"]_vars

\* C34: from the moment classified/{documentId}.json is in the bucket of a
\* document that has a job row, a row of that document eventually has
\* status SUCCEEDED.
C34_ClassifiedLeadsToSucceeded ==
  \A n \in 1..MaxJobs :
    (\E j \in DOMAIN jobs :
        /\ jobs[j].documentId = DocumentId(n)
        /\ <<jobs[j].bucket, classifiedKey(DocumentId(n))>> \in s3)
    ~> (\E j \in DOMAIN jobs :
          jobs[j].documentId = DocumentId(n) /\ jobs[j].status = SUCCEEDED)

\* C35: with the scheduled processBatch firing again and again, every item
\* that is METADATA_STORED is eventually PROCESSED or ERROR.
C35_StoredEventuallyProcessed ==
  \A d \in 1..MaxMetadata :
    (d \in DOMAIN documents /\ documents[d].status = METADATA_STORED)
    ~> (d \in DOMAIN documents /\ documents[d].status \in {PROCESSED, ERROR})

\* C36: no step takes an item of the metadata table from PROCESSED to
\* another status.
C36_ProcessedIsAbsorbing ==
  [][\A d \in DOMAIN documents :
       documents[d].status = PROCESSED => documents'[d].status = PROCESSED]_vars

\* C38: the messages getCompletionStatus has deleted from the queue all
\* carry the expected JobId.
C38_DeletesOnlyExpected ==
  notification.deleted \subseteq {"expected"}

\* C37: when processDocumentWithTextract has returned or thrown, neither the
\* topic nor the queue that its setupNotifications call created exists.
C37_ResourcesCleanedUp ==
  processor.pc \in {"returned", "threw"} =>
    processor.topic # "exists" /\ processor.queue # "exists"
====
